------------------------- MODULE SharedPagingProofs -------------------------
(***************************************************************************)
(* Proofs about SharedPaging for every size of the frame store, every set  *)
(* of scripts (those that run other scripts included), every argument list *)
(* of exec and every bound on the processes.                               *)
(***************************************************************************)
EXTENDS SharedPaging, SequenceTheorems, FiniteSetTheorems, WellFoundedInduction, TLAPS

-----------------------------------------------------------------------------
(* The types.                                                              *)
Index == Frames \cup {NoIndex}
TableEntry == {NoPage} \cup [Offset -> Index]
Table == UNION {[0 .. n -> TableEntry] : n \in Nat}
PcbSet == [script : Name, page : Nat, line : Offset, loaded : Nat, last : Index,
           lastPage : Nat \cup {-1}, table : Table]
LRUEntry == [pid : Nat, page : Nat]
Fate == {"alive", "ended", "crashed", "undefined"}
StateSet == [lines : [Frames -> LineRecord], procs : Seq(PcbSet), queue : Seq(Nat),
             lru : Seq(LRUEntry), fate : Fate]

(* A process that has a short last page and had it loaded when it was made. *)
ShortPage(q) == LineCount(q.script) <= 6 /\ LineCount(q.script) % 3 # 0

(* The indices of a page that is loaded: those of its lines are lines of   *)
(* the frame store, no two are the same, and one that is none is not seen  *)
(* but in a page that was loaded when the process was made.                *)
PageOK(q, i) ==
  LET page == q.table[i]
  IN /\ \A j \in Offset : 3 * i + j < LineCount(q.script) => page[j] \in Frames
     /\ \A j, k \in Offset : page[j] = page[k] /\ page[j] # NoIndex => j = k
     /\ \A j \in Offset : page[j] = NoIndex => ShortPage(q)

(* Pages are loaded front to back; the last line is known once the last    *)
(* page is loaded, and no page still to run has a line at its index.       *)
PcbOK(q) ==
  LET count == LineCount(q.script)
  IN /\ DOMAIN q.table = 0 .. count \div 3
     /\ q.loaded <= count /\ (q.loaded = count \/ q.loaded % 3 = 0)
     /\ 3 * q.page + q.line < count /\ 3 * q.page <= q.loaded
     /\ \A i \in DOMAIN q.table : q.table[i] # NoPage <=> 3 * i < q.loaded
     /\ \A i \in DOMAIN q.table : q.table[i] # NoPage => PageOK(q, i)
     /\ q.loaded < count => q.last = NoIndex /\ q.lastPage = -1
     /\ q.loaded = count =>
          /\ q.lastPage = (count - 1) \div 3
          /\ q.last = q.table[q.lastPage][(count - 1) % 3]
          /\ \A i \in q.page .. q.lastPage - 1 : \A j \in Offset : q.table[i][j] # q.last

(* What a loaded page leads to, for the live pages: pages outside U were   *)
(* not begun.                                                              *)
Holds(s, p, i) ==
  \A j \in Offset :
    LET k == s.procs[p].table[i][j]
        n == 3 * i + j + 1
    IN IF n <= LineCount(s.procs[p].script) THEN s.lines[k] = Line(p, n)
       ELSE k = NoIndex \/ s.lines[k] = Filling(p)

Entry(p, i) == [pid |-> p, page |-> i]

LiveIn(s, U, p, i) == <<p, i>> \notin U \/ Entry(p, i) \in ToSet(s.lru)

(* A state of the shell, when the pages in U have been begun.              *)
StateOK(s, U) ==
  /\ s \in StateSet
  /\ \A p \in DOMAIN s.procs : PcbOK(s.procs[p])
  /\ \A p \in DOMAIN s.procs : \A i \in DOMAIN s.procs[p].table :
       s.procs[p].table[i] # NoPage /\ LiveIn(s, U, p, i) => Holds(s, p, i)
  /\ IsInjective(s.lru)
  /\ \A e \in ToSet(s.lru) :
       /\ e.pid \in DOMAIN s.procs /\ e.page \in DOMAIN s.procs[e.pid].table
       /\ s.procs[e.pid].table[e.page] # NoPage /\ <<e.pid, e.page>> \in U
  /\ s.fate = "undefined" => \E p \in DOMAIN s.procs : ShortPage(s.procs[p])

BegunPages == {u \in Nat \X Nat : u[1] \in DOMAIN procs /\ Begun(u[1], u[2])}

(* A process is waiting in the queue once, or it runs, or it is finished.  *)
QueueOK ==
  /\ queue \in Seq(DOMAIN procs) /\ IsInjective(queue)
  /\ running \in {0} \cup DOMAIN procs /\ running \notin ToSet(queue)

(* No process runs at the prompt or while processes are made, and a turn   *)
(* of RR has lines left.                                                   *)
TurnOK ==
  /\ policy \in {"prompt", "FCFS", "RR"} /\ left \in 0 .. Quantum
  /\ policy = "RR" /\ running # 0 => left \in 1 .. Quantum
  /\ loading \in Seq(Name \cup {Missing}) /\ (policy = "prompt" => loading = <<>>)
  /\ policy = "prompt" \/ loading # <<>> => running = 0

(* A process has run one line for each place up to the one it is at.       *)
RanOK ==
  /\ DOMAIN ran = DOMAIN procs
  /\ \A p \in DOMAIN procs :
       /\ ran[p] \in Seq(LineRecord)
       /\ Len(ran[p]) = IF Finished(p) THEN LineCount(procs[p].script)
                        ELSE 3 * procs[p].page + procs[p].line

(* The inductive invariant.                                                *)
SInv == StateOK(Now, BegunPages) /\ QueueOK /\ TurnOK /\ RanOK

-----------------------------------------------------------------------------
(* Sequences without repetitions.                                          *)
LEMMA AppendDistinct ==
  ASSUME NEW S, NEW q \in Seq(S), NEW x \in S, IsInjective(q), x \notin ToSet(q)
  PROVE  /\ Append(q, x) \in Seq(S) /\ IsInjective(Append(q, x))
         /\ ToSet(Append(q, x)) = ToSet(q) \cup {x}
  <1>1. PICK new : new = Append(q, x)
    OBVIOUS
  <1>2. /\ new \in Seq(S) /\ DOMAIN new = DOMAIN q \cup {Len(q) + 1} /\ new[Len(q) + 1] = x
        /\ \A n \in DOMAIN q : new[n] = q[n]
    BY <1>1
  <1>3. \A n \in DOMAIN q : q[n] # x
    BY DEF ToSet
  <1>4. IsInjective(new)
    BY <1>2, <1>3 DEF IsInjective
  <1>5. ToSet(new) = ToSet(q) \cup {x}
    BY <1>2 DEF ToSet
  <1>6. QED
    BY <1>1, <1>2, <1>4, <1>5

LEMMA PrependDistinct ==
  ASSUME NEW S, NEW q \in Seq(S), NEW x \in S, IsInjective(q), x \notin ToSet(q)
  PROVE  /\ <<x>> \o q \in Seq(S) /\ IsInjective(<<x>> \o q)
         /\ ToSet(<<x>> \o q) = ToSet(q) \cup {x}
  <1>. DEFINE new == <<x>> \o q
              L == Len(q)
  <1>1. <<x>> \in Seq(S) /\ Len(<<x>>) = 1 /\ <<x>>[1] = x
    OBVIOUS
  <1>2. /\ new \in Seq(S) /\ Len(new) = 1 + L
        /\ \A n \in 1 .. 1 + L : new[n] = IF n <= 1 THEN <<x>>[n] ELSE q[n - 1]
    BY <1>1, ConcatProperties
  <1>3. L \in Nat /\ DOMAIN q = 1 .. L /\ DOMAIN new = 1 .. 1 + L
    BY <1>2
  <1>. HIDE DEF new, L
  <1>4. 1 \in DOMAIN new /\ new[1] = x
    BY <1>1, <1>2, <1>3
  <1>5. \A n \in DOMAIN q : n + 1 \in DOMAIN new /\ new[n + 1] = q[n]
    BY <1>2, <1>3
  <1>6. \A n \in DOMAIN new : n = 1 \/ (n - 1 \in DOMAIN q /\ n = (n - 1) + 1 /\ new[n] = q[n - 1])
    BY <1>2, <1>3
  <1>7. \A n \in DOMAIN q : q[n] # x
    BY DEF ToSet
  <1>8. IsInjective(new)
    <2>1. ASSUME NEW a \in DOMAIN new, NEW b \in DOMAIN new, new[a] = new[b] PROVE a = b
      <3>1. CASE a # 1 /\ b # 1
        <4>1. a - 1 = b - 1
          BY <1>6, <2>1, <3>1 DEF IsInjective
        <4>2. QED
          BY <1>6, <3>1, <4>1
      <3>2. QED
        BY <1>4, <1>6, <1>7, <2>1, <3>1
    <2>2. QED
      BY <2>1 DEF IsInjective
  <1>9. ToSet(new) = ToSet(q) \cup {x}
    BY <1>4, <1>5, <1>6 DEF ToSet
  <1>10. QED
    BY <1>2, <1>8, <1>9 DEF new

LEMMA TailDistinct ==
  ASSUME NEW S, NEW q \in Seq(S), q # <<>>, IsInjective(q)
  PROVE  /\ Head(q) \in S /\ Head(q) \in ToSet(q)
         /\ Tail(q) \in Seq(S) /\ IsInjective(Tail(q))
         /\ ToSet(Tail(q)) = ToSet(q) \ {Head(q)}
  <1>. DEFINE new == Tail(q)
              L == Len(q)
  <1>1. /\ L \in Nat \ {0} /\ q[1] = Head(q) /\ q[1] \in S /\ DOMAIN q = 1 .. L
        /\ new \in Seq(S) /\ DOMAIN new = 1 .. L - 1
        /\ \A n \in 1 .. L - 1 : new[n] = q[n + 1]
    OBVIOUS
  <1>. HIDE DEF new, L
  <1>2. 1 \in DOMAIN q
    BY <1>1
  <1>3. \A n \in DOMAIN new : n \in Int /\ n + 1 \in DOMAIN q /\ n + 1 # 1 /\ new[n] = q[n + 1]
    BY <1>1
  <1>4. \A n \in DOMAIN q : n = 1 \/ (n - 1 \in DOMAIN new /\ new[n - 1] = q[n])
    <2>1. ASSUME NEW n \in DOMAIN q, n # 1 PROVE n - 1 \in DOMAIN new /\ (n - 1) + 1 = n
      BY <1>1, <2>1
    <2>2. QED
      BY <1>3, <2>1
  <1>5. IsInjective(new)
    <2>1. ASSUME NEW a \in DOMAIN new, NEW b \in DOMAIN new, new[a] = new[b] PROVE a = b
      <3>1. a + 1 = b + 1
        BY <1>3, <2>1 DEF IsInjective
      <3>2. QED
        BY <1>3, <3>1
    <2>2. QED
      BY <2>1 DEF IsInjective
  <1>6. ToSet(new) = ToSet(q) \ {q[1]}
    <2>1. \A n \in DOMAIN new : new[n] # q[1]
      BY <1>2, <1>3 DEF IsInjective
    <2>2. QED
      BY <1>3, <1>4, <2>1 DEF ToSet
  <1>7. QED
    BY <1>1, <1>2, <1>5, <1>6 DEF new, ToSet

-----------------------------------------------------------------------------
(* A set of naturals that is not empty has a least element.                *)
LEMMA MinIs ==
  ASSUME NEW T \in SUBSET Nat, T # {}
  PROVE  Min(T) \in T /\ \A y \in T : Min(T) <= y
  <1>1. PICK x \in T : \A y \in T : ~(<<y, x>> \in OpToRel(<, Nat))
    BY NatLessThanWellFounded, WFMin, Zenon
  <1>2. \A y \in T : ~(y < x)
    BY <1>1 DEF OpToRel
  <1>3. \A y \in T : x <= y
    BY <1>2
  <1>4. QED
    BY <1>3 DEF Min

LEMMA MinOfTwo ==
  ASSUME NEW a \in Nat, NEW b \in Nat
  PROVE  Min({a, b}) = IF a <= b THEN a ELSE b
  <1>1. {a, b} \in SUBSET Nat /\ {a, b} # {}
    OBVIOUS
  <1>2. Min({a, b}) \in {a, b} /\ Min({a, b}) <= a /\ Min({a, b}) <= b
    BY <1>1, MinIs
  <1>3. QED
    BY <1>2

LEMMA MaxOfTwo ==
  ASSUME NEW a \in Nat, NEW b \in Nat
  PROVE  Max({a, b}) = IF a <= b THEN b ELSE a
  <1>1. \E x \in {a, b} : \A y \in {a, b} : x >= y
    OBVIOUS
  <1>2. Max({a, b}) \in {a, b} /\ Max({a, b}) >= a /\ Max({a, b}) >= b
    BY <1>1 DEF Max
  <1>3. QED
    BY <1>2

LEMMA LineCountType ==
  ASSUME NEW f \in Name
  PROVE  LineCount(f) \in Nat \ {0}
  <1>. DEFINE S == {"plain", "quit", Missing} \cup Name
              q == Script[f].lines
  <1>1. q \in Seq(S) /\ q # <<>> /\ Script[f].newline \in BOOLEAN
    BY PagingAssumption
  <1>. HIDE DEF q, S
  <1>2. Len(q) \in Nat \ {0} /\ \A e : Len(Append(q, e)) = Len(q) + 1
    BY <1>1
  <1>3. Loads(f) = IF Script[f].newline THEN Append(q, Last(q)) ELSE q
    BY DEF Loads, q
  <1>4. CASE Script[f].newline
    BY <1>2, <1>3, <1>4 DEF LineCount
  <1>5. CASE ~Script[f].newline
    BY <1>2, <1>3, <1>5 DEF LineCount
  <1>6. QED
    BY <1>4, <1>5

-----------------------------------------------------------------------------
(* The three lines that allocate_frame takes: different ones, each free or *)
(* one of the victim's, when the victim has three lines that are not free. *)
FreeSet(s) == {i \in Frames : s.lines[i] = Free}

LEMMA FreeLinesAre ==
  ASSUME NEW s
  PROVE  /\ FreeLines(s) \in Seq(FreeSet(s)) /\ Len(FreeLines(s)) \in 0 .. 3
         /\ \A j, k \in 1 .. Len(FreeLines(s)) : FreeLines(s)[j] = FreeLines(s)[k] => j = k
  <1>. DEFINE free == FreeSet(s)
              a == Min(free)
              b == Min(free \ {a})
              c == Min(free \ {a, b})
  <1>1. FreeLines(s) = IF free = {} THEN <<>>
                       ELSE IF free = {a} THEN <<a>>
                       ELSE IF free = {a, b} THEN <<a, b>> ELSE <<a, b, c>>
    BY DEF FreeLines, FreeSet
  <1>2. free \in SUBSET Nat
    BY PagingAssumption DEF FreeSet, Frames
  <1>. HIDE DEF free
  <1>3. free # {} => a \in free
    BY <1>2, MinIs
  <1>. HIDE DEF a
  <1>4. free \ {a} # {} => b \in free /\ b # a
    BY <1>2, MinIs
  <1>. HIDE DEF b
  <1>5. free \ {a, b} # {} => c \in free /\ c # a /\ c # b
    BY <1>2, MinIs
  <1>. HIDE DEF c
  <1>6. CASE free = {}
    BY <1>1, <1>6 DEF free
  <1>7. CASE free # {} /\ free = {a}
    <2>1. FreeLines(s) = <<a>> /\ a \in free
      BY <1>1, <1>3, <1>7
    <2>2. QED
      BY <2>1 DEF free
  <1>8. CASE free # {} /\ free # {a} /\ free = {a, b}
    <2>1. FreeLines(s) = <<a, b>> /\ a \in free /\ b \in free /\ b # a
      BY <1>1, <1>3, <1>4, <1>8
    <2>2. QED
      BY <2>1 DEF free
  <1>9. CASE free # {} /\ free # {a} /\ free # {a, b}
    <2>1. /\ FreeLines(s) = <<a, b, c>> /\ a \in free /\ b \in free /\ b # a
          /\ c \in free /\ c # a /\ c # b
      BY <1>1, <1>3, <1>4, <1>5, <1>9
    <2>2. QED
      BY <2>1 DEF free
  <1>10. QED
    BY <1>6, <1>7, <1>8, <1>9

(* A victim whose indices are three different lines that are not free. *)
GoodVictim(s) ==
  /\ Victim(s) \in [Offset -> Frames]
  /\ \A j, k \in Offset : Victim(s)[j] = Victim(s)[k] => j = k
  /\ \A j \in Offset : s.lines[Victim(s)[j]] # Free

LEMMA InOrderIs ==
  ASSUME NEW v \in [Offset -> Frames], \A j, k \in Offset : v[j] = v[k] => j = k
  PROVE  /\ InOrder(v) \in Seq(Range(v)) /\ Len(InOrder(v)) = 3
         /\ \A j, k \in 1 .. 3 : InOrder(v)[j] = InOrder(v)[k] => j = k
  <1>1. /\ v[0] \in Nat /\ v[1] \in Nat /\ v[2] \in Nat
        /\ v[0] # v[1] /\ v[0] # v[2] /\ v[1] # v[2]
    BY PagingAssumption DEF Frames, Offset
  <1>2. /\ Min({v[1], v[2]}) = IF v[1] <= v[2] THEN v[1] ELSE v[2]
        /\ Max({v[1], v[2]}) = IF v[1] <= v[2] THEN v[2] ELSE v[1]
    BY <1>1, MinOfTwo, MaxOfTwo
  <1>3. v[0] \in Range(v) /\ v[1] \in Range(v) /\ v[2] \in Range(v)
    BY DEF Range, Offset
  <1>. DEFINE a == v[0]
              b == v[1]
              c == v[2]
  <1>4. CASE v[1] <= v[2]
    <2>1. InOrder(v) = <<a, b, c>>
      BY <1>2, <1>4 DEF InOrder
    <2>2. a \in Range(v) /\ b \in Range(v) /\ c \in Range(v) /\ a # b /\ a # c /\ b # c
      BY <1>1, <1>3
    <2>. HIDE DEF a, b, c
    <2>3. QED
      BY <2>1, <2>2
  <1>5. CASE ~(v[1] <= v[2])
    <2>1. InOrder(v) = <<a, c, b>>
      BY <1>2, <1>5 DEF InOrder
    <2>2. a \in Range(v) /\ b \in Range(v) /\ c \in Range(v) /\ a # b /\ a # c /\ b # c
      BY <1>1, <1>3
    <2>. HIDE DEF a, b, c
    <2>3. QED
      BY <2>1, <2>2
  <1>6. QED
    BY <1>4, <1>5

LEMMA TakenAre ==
  ASSUME NEW s, Evicts(s) => GoodVictim(s)
  PROVE  /\ \A j \in 1 .. 3 :
              \/ Taken(s)[j] \in FreeSet(s)
              \/ Evicts(s) /\ Taken(s)[j] \in Range(Victim(s))
         /\ \A j, k \in 1 .. 3 : Taken(s)[j] = Taken(s)[k] => j = k
  <1>. DEFINE free == FreeLines(s)
              inOrder == InOrder(Victim(s))
              S == FreeSet(s)
              R == Range(Victim(s))
  <1>1. /\ free \in Seq(S) /\ Len(free) \in 0 .. 3
        /\ \A j, k \in 1 .. Len(free) : free[j] = free[k] => j = k
    BY FreeLinesAre
  <1>2. ~Evicts(s) => Taken(s) = free /\ Len(free) >= 3
    BY <1>1 DEF Taken, Evicts
  <1>3. Evicts(s) => Taken(s) = free \o inOrder /\ Len(free) < 3
    BY <1>1 DEF Taken, Evicts
  <1>4. Evicts(s) => /\ inOrder \in Seq(R) /\ Len(inOrder) = 3
                     /\ \A j, k \in 1 .. 3 : inOrder[j] = inOrder[k] => j = k
    BY InOrderIs DEF GoodVictim
  <1>5. Evicts(s) => S \cap R = {}
    BY DEF GoodVictim, FreeSet, Range
  <1>. DEFINE at == Taken(s)
  <1>. HIDE DEF free, inOrder, S, R, at
  <1>6. CASE ~Evicts(s)
    <2>1. at = free /\ Len(free) = 3
      BY <1>1, <1>2, <1>6 DEF at
    <2>2. \A j \in 1 .. 3 : at[j] \in S
      BY <1>1, <2>1
    <2>3. \A j, k \in 1 .. 3 : at[j] = at[k] => j = k
      BY <1>1, <2>1
    <2>4. QED
      BY <2>2, <2>3 DEF at, S
  <1>7. CASE Evicts(s)
    <2>. DEFINE L == Len(free)
    <2>1. L \in 0 .. 2
      BY <1>1, <1>3, <1>7
    <2>. HIDE DEF L
    <2>2. \A j \in 1 .. 3 : at[j] = IF j <= L THEN free[j] ELSE inOrder[j - L]
      <3>1. free \in Seq(S \cup R) /\ inOrder \in Seq(S \cup R)
        BY <1>1, <1>4, <1>7
      <3>2. \A j \in 1 .. L + Len(inOrder) :
              at[j] = IF j <= L THEN free[j] ELSE inOrder[j - L]
        BY <1>3, <1>7, <3>1, ConcatProperties DEF at, L
      <3>3. Len(inOrder) = 3
        BY <1>4, <1>7
      <3>4. \A j \in 1 .. 3 : j \in 1 .. L + 3
        BY <2>1
      <3>5. QED
        BY <3>2, <3>3, <3>4
    <2>3. \A j \in 1 .. L : free[j] \in S
      BY <1>1 DEF L
    <2>4. \A j \in 1 .. 3 : inOrder[j] \in R
      BY <1>4, <1>7
    <2>5. \A j \in 1 .. 3 : IF j <= L THEN at[j] \in S ELSE at[j] \in R
      BY <2>1, <2>2, <2>3, <2>4
    <2>6. ASSUME NEW j \in 1 .. 3, NEW k \in 1 .. 3, at[j] = at[k]
          PROVE  j = k
      <3>1. CASE j <= L /\ k <= L
        BY <1>1, <2>1, <2>2, <2>6, <3>1 DEF L
      <3>2. CASE ~(j <= L) /\ ~(k <= L)
        <4>1. inOrder[j - L] = inOrder[k - L] /\ j - L \in 1 .. 3 /\ k - L \in 1 .. 3
          BY <2>1, <2>2, <2>6, <3>2
        <4>2. j - L = k - L
          BY <1>4, <1>7, <4>1
        <4>3. QED
          BY <2>1, <4>2
      <3>3. QED
        BY <1>5, <1>7, <2>5, <2>6, <3>1, <3>2
    <2>7. QED
      BY <1>7, <2>5, <2>6 DEF at, S, R
  <1>8. QED
    BY <1>6, <1>7

-----------------------------------------------------------------------------
(* The process after its next page was loaded.                             *)
LEMMA Div3 ==
  ASSUME NEW a \in Nat
  PROVE  /\ a \div 3 \in Nat /\ 3 * (a \div 3) <= a /\ a < 3 * (a \div 3) + 3
         /\ a % 3 = a - 3 * (a \div 3)
  OBVIOUS

LEMMA EntryIsNoPage == NoPage \notin [Offset -> Index]
  <1>1. \A f \in [Offset -> Index] : 0 \in DOMAIN f
    BY DEF Offset
  <1>2. 0 \notin DOMAIN NoPage
    BY DEF NoPage
  <1>3. QED
    BY <1>1, <1>2

(* The table of a process, and what its next page and the lines up to the  *)
(* end of it are.                                                          *)
LEMMA NextPageIs ==
  ASSUME NEW q \in PcbSet, PcbOK(q), q.loaded < LineCount(q.script)
  PROVE  LET page == q.loaded \div 3
             n == LoadedTo(q)
             count == LineCount(q.script)
         IN /\ page \in DOMAIN q.table /\ q.table[page] = NoPage
            /\ page \in Nat /\ n \in Nat /\ count \in Nat
            /\ q.loaded = 3 * page
            /\ n = IF q.loaded + 3 <= count THEN q.loaded + 3 ELSE count
            /\ q.table \in [0 .. count \div 3 -> TableEntry]
  <1>. DEFINE page == q.loaded \div 3
              count == LineCount(q.script)
  <1>1. q.script \in Name /\ q.loaded \in Nat /\ q.table \in Table
    BY DEF PcbSet
  <1>2. count \in Nat \ {0}
    BY <1>1, LineCountType
  <1>. HIDE DEF count
  <1>3. /\ DOMAIN q.table = 0 .. count \div 3 /\ q.loaded < count /\ q.loaded % 3 = 0
        /\ \A i \in DOMAIN q.table : q.table[i] # NoPage <=> 3 * i < q.loaded
    BY <1>1, <1>2 DEF PcbOK, count
  <1>4. q.loaded = 3 * page /\ page \in Nat
    BY <1>1, <1>3, Div3
  <1>. HIDE DEF page
  <1>5. page \in 0 .. count \div 3
    BY <1>2, <1>3, <1>4, Div3
  <1>6. LoadedTo(q) = IF q.loaded + 3 <= count THEN q.loaded + 3 ELSE count
    BY <1>1, <1>2, MinOfTwo DEF LoadedTo, count
  <1>7. q.table \in [0 .. count \div 3 -> TableEntry]
    <2>1. PICK m \in Nat : q.table \in [0 .. m -> TableEntry]
      BY <1>1 DEF Table
    <2>2. QED
      BY <1>3, <2>1
  <1>8. q.table[page] = NoPage
    BY <1>3, <1>4, <1>5
  <1>9. QED
    BY <1>1, <1>2, <1>3, <1>4, <1>5, <1>6, <1>7, <1>8 DEF page, count

LEMMA LoadedPcbIs ==
  ASSUME NEW q \in PcbSet, PcbOK(q), q.loaded < LineCount(q.script),
         NEW at, \A j \in 1 .. 3 : at[j] \in Frames, NEW initial \in BOOLEAN
  PROVE  LET new == LoadedPcb(q, at, initial)
             page == q.loaded \div 3
             n == LoadedTo(q)
             end == n = LineCount(q.script)
         IN /\ new \in PcbSet /\ DOMAIN new.table = DOMAIN q.table
            /\ new.script = q.script /\ new.page = q.page /\ new.line = q.line
            /\ new.loaded = n
            /\ new.last = (IF end THEN at[n - q.loaded] ELSE q.last)
            /\ new.lastPage = (IF end THEN page ELSE q.lastPage)
            /\ new.table[page] \in [Offset -> Index]
            /\ \A j \in Offset :
                 new.table[page][j] =
                   IF initial /\ q.loaded + j + 1 > n THEN NoIndex ELSE at[j + 1]
            /\ \A h \in DOMAIN q.table \ {page} : new.table[h] = q.table[h]
  <1>. DEFINE page == q.loaded \div 3
              n == LoadedTo(q)
              count == LineCount(q.script)
              D == 0 .. count \div 3
              e == [j \in Offset |->
                      IF initial /\ q.loaded + j + 1 > n THEN NoIndex ELSE at[j + 1]]
              last == IF n = count THEN at[n - q.loaded] ELSE q.last
              lastPage == IF n = count THEN page ELSE q.lastPage
              new == LoadedPcb(q, at, initial)
  <1>1. /\ page \in D /\ page \in Nat /\ n \in Nat /\ count \in Nat
        /\ n = IF q.loaded + 3 <= count THEN q.loaded + 3 ELSE count
        /\ q.table \in [D -> TableEntry]
    BY NextPageIs
  <1>2. /\ q.loaded \in Nat /\ q.last \in Index /\ q.lastPage \in Nat \cup {-1}
        /\ q.loaded < count
    BY DEF PcbSet
  <1>3. new = [q EXCEPT !.table[page] = e, !.loaded = n, !.last = last, !.lastPage = lastPage]
    BY DEF LoadedPcb
  <1>. HIDE DEF page, n, count, new
  <1>4. last \in Index
    <2>1. n = count => n - q.loaded \in 1 .. 3
      BY <1>1, <1>2
    <2>2. QED
      BY <1>2, <2>1 DEF Index
  <1>5. lastPage \in Nat \cup {-1}
    BY <1>1, <1>2
  <1>6. e \in [Offset -> Index]
    <2>1. \A j \in Offset : j + 1 \in 1 .. 3
      BY DEF Offset
    <2>2. QED
      BY <2>1 DEF Index
  <1>7. e \in TableEntry
    BY <1>6 DEF TableEntry
  <1>8. q \in [script : Name, page : Nat, line : Offset, loaded : Nat, last : Index,
               lastPage : Nat \cup {-1}, table : [D -> TableEntry]]
    BY <1>1 DEF PcbSet
  <1>9. \A j \in Offset : e[j] = IF initial /\ q.loaded + j + 1 > n THEN NoIndex ELSE at[j + 1]
    OBVIOUS
  <1>. HIDE DEF D, e, last, lastPage
  <1>10. /\ new \in [script : Name, page : Nat, line : Offset, loaded : Nat, last : Index,
                     lastPage : Nat \cup {-1}, table : [D -> TableEntry]]
         /\ new.script = q.script /\ new.page = q.page /\ new.line = q.line
         /\ new.loaded = n /\ new.last = last /\ new.lastPage = lastPage
         /\ new.table[page] = e /\ \A h \in D \ {page} : new.table[h] = q.table[h]
    BY <1>1, <1>3, <1>4, <1>5, <1>7, <1>8
  <1>11. new \in PcbSet
    <2>1. [D -> TableEntry] \subseteq Table
      BY <1>1, Div3 DEF D, Table
    <2>2. QED
      BY <1>10, <2>1 DEF PcbSet
  <1>12. DOMAIN new.table = D /\ DOMAIN q.table = D
    BY <1>1, <1>10
  <1>13. QED
    BY <1>6, <1>9, <1>10, <1>11, <1>12 DEF new, last, lastPage, page, n, count

LEMMA LoadedPcbOK ==
  ASSUME NEW q \in PcbSet, PcbOK(q), q.loaded < LineCount(q.script),
         NEW at, \A j \in 1 .. 3 : at[j] \in Frames,
         \A j, k \in 1 .. 3 : at[j] = at[k] => j = k,
         NEW initial \in BOOLEAN, initial => q.loaded \in {0, 3},
         \A i \in q.page .. q.loaded \div 3 - 1 : \A j \in Offset, k \in 1 .. 3 :
           q.table[i][j] # at[k]
  PROVE  PcbOK(LoadedPcb(q, at, initial))
  <1>. DEFINE page == q.loaded \div 3
              n == LoadedTo(q)
              count == LineCount(q.script)
              new == LoadedPcb(q, at, initial)
  <1>1. /\ page \in DOMAIN q.table /\ q.table[page] = NoPage
        /\ page \in Nat /\ n \in Nat /\ count \in Nat /\ q.loaded = 3 * page
        /\ n = IF q.loaded + 3 <= count THEN q.loaded + 3 ELSE count
    BY NextPageIs
  <1>2. /\ new \in PcbSet /\ DOMAIN new.table = DOMAIN q.table
        /\ new.script = q.script /\ new.page = q.page /\ new.line = q.line
        /\ new.loaded = n
        /\ new.last = (IF n = count THEN at[n - q.loaded] ELSE q.last)
        /\ new.lastPage = (IF n = count THEN page ELSE q.lastPage)
        /\ new.table[page] \in [Offset -> Index]
        /\ \A j \in Offset :
             new.table[page][j] = IF initial /\ q.loaded + j + 1 > n THEN NoIndex ELSE at[j + 1]
        /\ \A h \in DOMAIN q.table \ {page} : new.table[h] = q.table[h]
    BY LoadedPcbIs
  <1>3. /\ q.loaded \in Nat /\ q.page \in Nat /\ q.line \in 0 .. 2 /\ q.loaded < count
        /\ DOMAIN q.table = 0 .. count \div 3
        /\ 3 * q.page + q.line < count /\ 3 * q.page <= q.loaded
        /\ \A i \in DOMAIN q.table : q.table[i] # NoPage <=> 3 * i < q.loaded
        /\ \A i \in DOMAIN q.table : q.table[i] # NoPage => PageOK(q, i)
        /\ q.last = NoIndex /\ q.lastPage = -1
    BY DEF PcbSet, PcbOK, Offset
  <1>4. initial => q.loaded \in {0, 3}
    OBVIOUS
  <1>5. \A i \in q.page .. page - 1 : \A j \in Offset, k \in 1 .. 3 : q.table[i][j] # at[k]
    OBVIOUS
  <1>6. NoIndex \notin Frames
    BY DEF NoIndex, Frames
  <1>. HIDE DEF page, n, count, new
  <1>7. n <= count /\ (n = count \/ n % 3 = 0) /\ q.loaded < n /\ n <= q.loaded + 3
    <2>1. (3 * page + 3) % 3 = 0
      BY <1>1
    <2>2. QED
      BY <1>1, <1>3, <2>1
  <1>8. /\ page \in Nat /\ q.loaded \in Nat /\ n \in Nat /\ count \in Nat
        /\ q.loaded = 3 * page /\ q.loaded < count
        /\ n = IF q.loaded + 3 <= count THEN q.loaded + 3 ELSE count
    BY <1>1, <1>3
  <1>9. \A i \in DOMAIN q.table : new.table[i] # NoPage <=> 3 * i < n
    <2>1. new.table[page] # NoPage /\ 3 * page < n
      BY <1>1, <1>2, <1>7, EntryIsNoPage
    <2>2. ASSUME NEW i \in DOMAIN q.table, i # page PROVE 3 * i < q.loaded <=> 3 * i < n
      BY <1>1, <1>3, <1>7, <2>2
    <2>3. QED
      BY <1>2, <1>3, <2>1, <2>2
  <1>10. PageOK(new, page)
    <2>1. ASSUME NEW j \in Offset, 3 * page + j < count PROVE new.table[page][j] \in Frames
      <3>1. j + 1 \in 1 .. 3 /\ ~(q.loaded + j + 1 > n)
        BY <1>1, <2>1 DEF Offset
      <3>2. QED
        BY <1>2, <3>1
    <2>2. ASSUME NEW j \in Offset, NEW k \in Offset, new.table[page][j] = new.table[page][k],
                 new.table[page][j] # NoIndex
          PROVE  j = k
      <3>1. j + 1 \in 1 .. 3 /\ k + 1 \in 1 .. 3 /\ j \in Int /\ k \in Int
        BY DEF Offset
      <3>2. at[j + 1] = at[k + 1]
        BY <1>2, <2>2
      <3>3. j + 1 = k + 1
        BY <3>1, <3>2
      <3>4. QED
        BY <3>1, <3>3
    <2>3. ASSUME NEW j \in Offset, new.table[page][j] = NoIndex PROVE ShortPage(new)
      <3>1. j + 1 \in 1 .. 3 /\ j \in Int
        BY DEF Offset
      <3>2. initial /\ q.loaded + j + 1 > n
        BY <1>2, <1>6, <2>3, <3>1
      <3>3. n = count /\ count < q.loaded + 3
        BY <1>8, <3>1, <3>2
      <3>4. count <= 6 /\ count % 3 # 0
        <4>1. count \in {1, 2, 4, 5}
          BY <1>4, <1>8, <3>2, <3>3
        <4>2. 1 % 3 = 1 /\ 2 % 3 = 2 /\ 4 % 3 = 1 /\ 5 % 3 = 2
          OBVIOUS
        <4>3. QED
          BY <4>1, <4>2
      <3>5. QED
        BY <1>2, <3>4 DEF ShortPage, count
    <2>4. QED
      BY <1>2, <2>1, <2>2, <2>3 DEF PageOK, count
  <1>11. ASSUME NEW i \in DOMAIN q.table, new.table[i] # NoPage PROVE PageOK(new, i)
    <2>1. CASE i = page
      BY <1>10, <2>1
    <2>2. CASE i # page
      <3>1. new.table[i] = q.table[i] /\ PageOK(q, i)
        BY <1>2, <1>3, <1>11, <2>2
      <3>2. QED
        BY <1>2, <3>1 DEF PageOK, ShortPage
    <2>3. QED
      BY <2>1, <2>2
  <1>12. n < count => new.last = NoIndex /\ new.lastPage = -1
    BY <1>1, <1>2, <1>3
  <1>13. ASSUME n = count
         PROVE  /\ new.lastPage = (count - 1) \div 3
                /\ new.last = new.table[new.lastPage][(count - 1) % 3]
                /\ \A i \in new.page .. new.lastPage - 1 : \A j \in Offset :
                     new.table[i][j] # new.last
    <2>1. new.lastPage = page /\ new.last = at[count - q.loaded]
      BY <1>2, <1>13
    <2>2. count - 1 \in Nat /\ 3 * page <= count - 1 /\ count - 1 < 3 * page + 3
      BY <1>7, <1>8, <1>13
    <2>3. (count - 1) \div 3 = page /\ (count - 1) % 3 = count - 1 - q.loaded
      BY <1>1, <2>2, Div3
    <2>. DEFINE j == count - 1 - q.loaded
    <2>4. /\ j \in Offset /\ j + 1 = count - q.loaded /\ q.loaded + j + 1 = count
          /\ count - q.loaded \in 1 .. 3
      BY <1>8, <2>2 DEF Offset
    <2>5. new.table[page][j] = at[j + 1]
      <3>1. ~(q.loaded + j + 1 > n)
        BY <1>8, <1>13, <2>4
      <3>. HIDE DEF j
      <3>2. QED
        BY <1>2, <2>4, <3>1
    <2>6. ASSUME NEW i \in new.page .. new.lastPage - 1, NEW h \in Offset
          PROVE  new.table[i][h] # new.last
      <3>1. i \in q.page .. page - 1 /\ i # page /\ i \in DOMAIN q.table
        BY <1>1, <1>2, <1>3, <2>1
      <3>2. QED
        BY <1>2, <1>5, <2>1, <2>4, <3>1
    <2>7. QED
      BY <2>1, <2>3, <2>4, <2>5, <2>6
  <1>14. new.script = q.script /\ LineCount(new.script) = count
    BY <1>2 DEF count
  <1>15. 3 * new.page + new.line < count /\ 3 * new.page <= n
    BY <1>1, <1>2, <1>3, <1>7
  <1>16. PcbOK(new)
    BY <1>2, <1>3, <1>7, <1>9, <1>11, <1>12, <1>13, <1>14, <1>15 DEF PcbOK
  <1>17. QED
    BY <1>16 DEF new

-----------------------------------------------------------------------------
(* Pages that hold their lines share none: a line of the frame store is of *)
(* one process and has one number, and fillings are on the last page only. *)
LEMMA PcbIs ==
  ASSUME NEW U, NEW s, StateOK(s, U), NEW p \in DOMAIN s.procs
  PROVE  /\ p \in Nat \ {0} /\ s.procs[p] \in PcbSet /\ PcbOK(s.procs[p])
         /\ LineCount(s.procs[p].script) \in Nat \ {0}
         /\ DOMAIN s.procs[p].table \subseteq Nat
         /\ \A i \in DOMAIN s.procs[p].table :
              s.procs[p].table[i] # NoPage =>
                /\ s.procs[p].table[i] \in [Offset -> Index]
                /\ 3 * i < LineCount(s.procs[p].script)
  <1>. DEFINE q == s.procs[p]
  <1>1. s.procs \in Seq(PcbSet)
    BY DEF StateOK, StateSet
  <1>2. p \in Nat \ {0} /\ q \in PcbSet
    BY <1>1
  <1>3. PcbOK(q)
    BY DEF StateOK
  <1>4. q.script \in Name /\ q.table \in Table /\ q.loaded \in Nat
    BY <1>2 DEF PcbSet
  <1>5. LineCount(q.script) \in Nat \ {0}
    BY <1>4, LineCountType
  <1>6. PICK m \in Nat : q.table \in [0 .. m -> TableEntry]
    BY <1>4 DEF Table
  <1>7. ASSUME NEW i \in DOMAIN q.table, q.table[i] # NoPage
        PROVE  q.table[i] \in [Offset -> Index] /\ 3 * i < LineCount(q.script)
    <2>1. q.table[i] \in [Offset -> Index]
      BY <1>6, <1>7 DEF TableEntry
    <2>2. 3 * i < q.loaded /\ q.loaded <= LineCount(q.script) /\ i \in Nat
      <3>1. 3 * i < q.loaded
        BY <1>3, <1>7, Zenon DEF PcbOK
      <3>2. q.loaded <= LineCount(q.script)
        BY <1>3, Zenon DEF PcbOK
      <3>3. QED
        BY <1>6, <1>7, <3>1, <3>2
    <2>3. QED
      BY <1>4, <1>5, <2>1, <2>2
  <1>8. DOMAIN q.table \subseteq Nat
    BY <1>6
  <1>9. QED
    BY <1>2, <1>3, <1>5, <1>7, <1>8

LEMMA OwnLines ==
  ASSUME NEW U, NEW s, StateOK(s, U),
         NEW p \in DOMAIN s.procs, NEW i \in DOMAIN s.procs[p].table,
         NEW q \in DOMAIN s.procs, NEW h \in DOMAIN s.procs[q].table,
         s.procs[p].table[i] # NoPage, s.procs[q].table[h] # NoPage,
         Holds(s, p, i), Holds(s, q, h), <<p, i>> # <<q, h>>,
         NEW j \in Offset, NEW k \in Offset,
         s.procs[p].table[i][j] = s.procs[q].table[h][k]
  PROVE  s.procs[p].table[i][j] = NoIndex
  <1>. DEFINE x == s.procs[p].table[i][j]
              cp == LineCount(s.procs[p].script)
              cq == LineCount(s.procs[q].script)
  <1>1. SUFFICES ASSUME x # NoIndex PROVE FALSE
    OBVIOUS
  <1>2. s.lines[x] = IF 3 * i + j + 1 <= cp THEN Line(p, 3 * i + j + 1) ELSE Filling(p)
    BY <1>1 DEF Holds
  <1>3. s.lines[x] = IF 3 * h + k + 1 <= cq THEN Line(q, 3 * h + k + 1) ELSE Filling(q)
    BY <1>1 DEF Holds
  <1>4. /\ i \in Nat /\ h \in Nat /\ j \in 0 .. 2 /\ k \in 0 .. 2
        /\ cp \in Nat /\ cq \in Nat /\ 3 * i < cp /\ 3 * h < cq
    BY PcbIs DEF Offset
  <1>. HIDE DEF x, cp, cq
  <1>5. /\ s.lines[x].pid = p /\ s.lines[x].pid = q
        /\ s.lines[x].n = IF 3 * i + j + 1 <= cp THEN 3 * i + j + 1 ELSE 0
        /\ s.lines[x].n = IF 3 * h + k + 1 <= cq THEN 3 * h + k + 1 ELSE 0
    BY <1>2, <1>3 DEF Line, Filling
  <1>6. p = q /\ cp = cq
    BY <1>5 DEF cp, cq
  <1>7. i = h
    BY <1>4, <1>5, <1>6
  <1>8. QED
    BY <1>6, <1>7

(* What Loaded evicts, and when that is undefined.                         *)
LEMMA VictimIs ==
  ASSUME NEW U, NEW s, StateOK(s, U), Evicts(s), s.lru # <<>>
  PROVE  LET e == Head(s.lru)
             short == \E j \in Offset : Victim(s)[j] = NoIndex
         IN /\ e.pid \in DOMAIN s.procs /\ e.page \in DOMAIN s.procs[e.pid].table
            /\ e = Entry(e.pid, e.page) /\ <<e.pid, e.page>> \in U
            /\ Victim(s) = s.procs[e.pid].table[e.page] /\ Victim(s) # NoPage
            /\ Holds(s, e.pid, e.page)
            /\ Popped(s) \in Seq(LRUEntry) /\ IsInjective(Popped(s))
            /\ ToSet(Popped(s)) = ToSet(s.lru) \ {e}
            /\ Outcome(s) = IF short THEN "undefined" ELSE s.fate
            /\ short => ShortPage(s.procs[e.pid])
            /\ ~short => GoodVictim(s)
  <1>. DEFINE e == Head(s.lru)
              v == Victim(s)
              short == \E j \in Offset : v[j] = NoIndex
              tail == Tail(s.lru)
  <1>1. s.lru \in Seq(LRUEntry) /\ IsInjective(s.lru)
    BY DEF StateOK, StateSet
  <1>2. /\ e \in LRUEntry /\ e \in ToSet(s.lru)
        /\ tail \in Seq(LRUEntry) /\ IsInjective(tail) /\ ToSet(tail) = ToSet(s.lru) \ {e}
    BY <1>1, TailDistinct
  <1>. HIDE DEF e, tail
  <1>3. e \in ToSet(s.lru) /\ e = Entry(e.pid, e.page)
    BY <1>2 DEF LRUEntry, Entry
  <1>4. /\ e.pid \in DOMAIN s.procs /\ e.page \in DOMAIN s.procs[e.pid].table
        /\ s.procs[e.pid].table[e.page] # NoPage /\ <<e.pid, e.page>> \in U
    BY <1>3 DEF StateOK
  <1>5. v = s.procs[e.pid].table[e.page]
    BY DEF Victim, e
  <1>6. Holds(s, e.pid, e.page)
    BY <1>3, <1>4 DEF StateOK, LiveIn
  <1>7. /\ v \in [Offset -> Index] /\ PcbOK(s.procs[e.pid]) /\ e.pid \in Nat \ {0}
        /\ e.page \in Nat /\ LineCount(s.procs[e.pid].script) \in Nat
    BY <1>4, <1>5, PcbIs
  <1>8. PageOK(s.procs[e.pid], e.page)
    BY <1>4, <1>7 DEF PcbOK
  <1>9. ASSUME NEW j \in Offset, v[j] # NoIndex PROVE s.lines[v[j]] # Free
    <2>1. \/ s.lines[v[j]] = Line(e.pid, 3 * e.page + j + 1)
          \/ s.lines[v[j]] = Filling(e.pid)
      BY <1>5, <1>6, <1>9 DEF Holds
    <2>2. s.lines[v[j]].pid = e.pid
      BY <2>1 DEF Line, Filling
    <2>3. QED
      BY <1>7, <2>2 DEF Free
  <1>10. Range(v) = {v[j] : j \in Offset}
    BY <1>7 DEF Range
  <1>. HIDE DEF v
  <1>11. Outcome(s) = IF short THEN "undefined" ELSE s.fate
    BY <1>9, <1>10 DEF Outcome, v
  <1>12. short => ShortPage(s.procs[e.pid])
    BY <1>5, <1>8 DEF PageOK
  <1>13. ASSUME ~short PROVE GoodVictim(s)
    <2>1. v \in [Offset -> Frames]
      BY <1>7, <1>13 DEF Index
    <2>2. \A j, k \in Offset : v[j] = v[k] => j = k
      BY <1>5, <1>8, <1>13 DEF PageOK
    <2>3. QED
      BY <1>9, <1>13, <2>1, <2>2 DEF GoodVictim, v
  <1>14. Popped(s) = tail
    BY DEF Popped, tail
  <1>15. QED
    BY <1>2, <1>3, <1>4, <1>5, <1>6, <1>11, <1>12, <1>13, <1>14 DEF e, v

-----------------------------------------------------------------------------
(* A state in which more pages have been begun, with the same pages, lines *)
(* and LRU queue.                                                          *)
LEMMA StateWeaken ==
  ASSUME NEW U, NEW W, NEW s, StateOK(s, U), NEW t \in StateSet, U \subseteq W,
         t.lines = s.lines, t.procs = s.procs, t.lru = s.lru,
         t.fate = "undefined" => \E p \in DOMAIN s.procs : ShortPage(s.procs[p])
  PROVE  StateOK(t, W)
  <1>1. \A p \in DOMAIN s.procs : \A i \in DOMAIN s.procs[p].table :
          s.procs[p].table[i] # NoPage /\ LiveIn(t, W, p, i) => Holds(t, p, i)
    BY DEF StateOK, LiveIn, Holds
  <1>2. \A e \in ToSet(s.lru) :
          /\ e.pid \in DOMAIN s.procs /\ e.page \in DOMAIN s.procs[e.pid].table
          /\ s.procs[e.pid].table[e.page] # NoPage /\ <<e.pid, e.page>> \in W
    BY DEF StateOK
  <1>3. (\A p \in DOMAIN s.procs : PcbOK(s.procs[p])) /\ IsInjective(s.lru)
    BY DEF StateOK
  <1>4. QED
    BY <1>1, <1>2, <1>3 DEF StateOK

LEMMA FateUpdate ==
  ASSUME NEW s \in StateSet, NEW f \in Fate
  PROVE  LET t == [s EXCEPT !.fate = f]
         IN /\ t \in StateSet /\ t.lines = s.lines /\ t.procs = s.procs
            /\ t.lru = s.lru /\ t.queue = s.queue /\ t.fate = f
  BY DEF StateSet

(* A page that cannot be loaded, or a shell that is dead already.          *)
LEMMA LoadedFails ==
  ASSUME NEW U, NEW s, StateOK(s, U), Outcome(s) # "alive", NEW p, NEW initial
  PROVE  LET t == Loaded(s, p, initial)
         IN /\ StateOK(t, U) /\ t.procs = s.procs /\ t.queue = s.queue
            /\ t.fate # "alive" /\ (s.fate # "ended" => t.fate # "ended")
  <1>1. s \in StateSet /\ s.fate \in Fate
    BY DEF StateOK, StateSet
  <1>2. /\ Outcome(s) \in Fate \ {"alive"} /\ (s.fate # "ended" => Outcome(s) # "ended")
        /\ Outcome(s) = "undefined" => \E q \in DOMAIN s.procs : ShortPage(s.procs[q])
    <2>1. s.fate = "undefined" => \E q \in DOMAIN s.procs : ShortPage(s.procs[q])
      BY DEF StateOK
    <2>2. CASE ~Evicts(s)
      BY <1>1, <2>1, <2>2 DEF Outcome
    <2>3. CASE Evicts(s) /\ s.lru = <<>>
      BY <2>3 DEF Outcome, Fate
    <2>4. CASE Evicts(s) /\ s.lru # <<>>
      <3>. DEFINE e == Head(s.lru)
                  short == \E j \in Offset : Victim(s)[j] = NoIndex
      <3>1. /\ e.pid \in DOMAIN s.procs /\ Outcome(s) = IF short THEN "undefined" ELSE s.fate
            /\ short => ShortPage(s.procs[e.pid])
        BY <2>4, VictimIs
      <3>2. QED
        BY <1>1, <2>1, <3>1 DEF Fate
    <2>5. QED
      BY <2>2, <2>3, <2>4
  <1>3. Loaded(s, p, initial) = [s EXCEPT !.fate = Outcome(s)]
    BY DEF Loaded
  <1>. DEFINE t == Loaded(s, p, initial)
              f == Outcome(s)
  <1>. HIDE DEF t, f
  <1>4. /\ t \in StateSet /\ t.lines = s.lines /\ t.procs = s.procs
        /\ t.lru = s.lru /\ t.queue = s.queue /\ t.fate = f
    BY <1>1, <1>2, <1>3, FateUpdate DEF t, f
  <1>5. StateOK(t, U)
    BY <1>2, <1>4, StateWeaken DEF f
  <1>6. QED
    BY <1>2, <1>4, <1>5 DEF t, f

(* The lines that are taken and freed are nobody's but the victim's.       *)
LEMMA TakenFromNobody ==
  ASSUME NEW U, NEW s, StateOK(s, U), Outcome(s) = "alive"
  PROVE  /\ s.fate = "alive"
         /\ Evicts(s) => s.lru # <<>> /\ GoodVictim(s)
         /\ \A j \in 1 .. 3 : Taken(s)[j] \in Frames
         /\ \A j, k \in 1 .. 3 : Taken(s)[j] = Taken(s)[k] => j = k
         /\ Freed(s) \subseteq Frames
         /\ Popped(s) \in Seq(LRUEntry) /\ IsInjective(Popped(s))
         /\ ToSet(Popped(s)) \subseteq ToSet(s.lru)
         /\ \A q \in DOMAIN s.procs : \A h \in DOMAIN s.procs[q].table :
              s.procs[q].table[h] # NoPage /\ LiveIn(s, U, q, h)
              /\ (Evicts(s) => LET e == Head(s.lru) IN <<q, h>> # <<e.pid, e.page>>)
              => \A j \in Offset :
                   /\ s.procs[q].table[h][j] \notin Freed(s)
                   /\ \A k \in 1 .. 3 : s.procs[q].table[h][j] # Taken(s)[k]
  <1>. DEFINE e == Head(s.lru)
              v == Victim(s)
              at == Taken(s)
  <1>1. ASSUME Evicts(s)
        PROVE  /\ s.lru # <<>> /\ s.fate = "alive"
               /\ e.pid \in DOMAIN s.procs /\ e.page \in DOMAIN s.procs[e.pid].table
               /\ v = s.procs[e.pid].table[e.page] /\ v # NoPage
               /\ Holds(s, e.pid, e.page) /\ GoodVictim(s)
               /\ Popped(s) \in Seq(LRUEntry) /\ IsInjective(Popped(s))
               /\ ToSet(Popped(s)) = ToSet(s.lru) \ {e}
    <2>1. s.lru # <<>>
      BY <1>1 DEF Outcome
    <2>. DEFINE short == \E j \in Offset : v[j] = NoIndex
    <2>2. /\ e.pid \in DOMAIN s.procs /\ e.page \in DOMAIN s.procs[e.pid].table
          /\ v = s.procs[e.pid].table[e.page] /\ v # NoPage
          /\ Holds(s, e.pid, e.page)
          /\ Popped(s) \in Seq(LRUEntry) /\ IsInjective(Popped(s))
          /\ ToSet(Popped(s)) = ToSet(s.lru) \ {e}
          /\ Outcome(s) = IF short THEN "undefined" ELSE s.fate
          /\ ~short => GoodVictim(s)
      BY <1>1, <2>1, VictimIs
    <2>3. ~short /\ s.fate = "alive"
      BY <2>2
    <2>4. QED
      BY <2>1, <2>2, <2>3
  <1>2. ~Evicts(s) => s.fate = "alive"
    BY DEF Outcome
  <1>3. /\ \A j \in 1 .. 3 : at[j] \in FreeSet(s) \/ (Evicts(s) /\ at[j] \in Range(v))
        /\ \A j, k \in 1 .. 3 : at[j] = at[k] => j = k
    BY <1>1, TakenAre
  <1>4. Evicts(s) => Range(v) = {v[j] : j \in Offset} /\ Range(v) \subseteq Frames
    BY <1>1 DEF GoodVictim, Range
  <1>5. \A j \in 1 .. 3 : at[j] \in Frames
    BY <1>3, <1>4 DEF FreeSet
  <1>6. Freed(s) = IF Evicts(s) THEN Range(v) ELSE {}
    BY DEF Freed
  <1>7. NoIndex \notin Frames
    BY DEF NoIndex, Frames
  <1>8. /\ Popped(s) \in Seq(LRUEntry) /\ IsInjective(Popped(s))
        /\ ToSet(Popped(s)) \subseteq ToSet(s.lru)
    <2>1. ~Evicts(s) => Popped(s) = s.lru
      BY DEF Popped
    <2>2. s.lru \in Seq(LRUEntry) /\ IsInjective(s.lru)
      BY DEF StateOK, StateSet
    <2>3. QED
      BY <1>1, <2>1, <2>2
  <1>. HIDE DEF e, v, at
  <1>9. ASSUME NEW q \in DOMAIN s.procs, NEW h \in DOMAIN s.procs[q].table,
               s.procs[q].table[h] # NoPage, LiveIn(s, U, q, h),
               Evicts(s) => <<q, h>> # <<e.pid, e.page>>, NEW j \in Offset
        PROVE  /\ s.procs[q].table[h][j] \notin Freed(s)
               /\ \A k \in 1 .. 3 : s.procs[q].table[h][j] # at[k]
    <2>. DEFINE x == s.procs[q].table[h][j]
    <2>1. Holds(s, q, h)
      BY <1>9 DEF StateOK
    <2>2. x # NoIndex => s.lines[x] # Free
      <3>1. x # NoIndex => \/ s.lines[x] = Line(q, 3 * h + j + 1)
                           \/ s.lines[x] = Filling(q)
        BY <2>1 DEF Holds
      <3>. HIDE DEF x
      <3>2. x # NoIndex => s.lines[x].pid = q
        BY <3>1 DEF Line, Filling
      <3>3. q # 0
        BY PcbIs
      <3>4. QED
        BY <3>2, <3>3 DEF Free
    <2>3. ASSUME Evicts(s), NEW m \in Offset, x = v[m] PROVE FALSE
      <3>1. x \in Frames
        BY <1>4, <2>3
      <3>2. s.procs[q].table[h][j] = s.procs[e.pid].table[e.page][m]
        BY <1>1, <2>3 DEF e, v
      <3>3. s.procs[e.pid].table[e.page] # NoPage
        BY <1>1, <2>3 DEF e, v
      <3>4. /\ e.pid \in DOMAIN s.procs /\ e.page \in DOMAIN s.procs[e.pid].table
            /\ Holds(s, e.pid, e.page) /\ <<q, h>> # <<e.pid, e.page>>
        BY <1>1, <1>9, <2>3
      <3>. HIDE DEF x
      <3>5. s.procs[q].table[h][j] = NoIndex
        <4>1. PICK ep : ep = e.pid
          OBVIOUS
        <4>2. PICK ei : ei = e.page
          OBVIOUS
        <4>3. /\ ep \in DOMAIN s.procs /\ ei \in DOMAIN s.procs[ep].table
              /\ s.procs[ep].table[ei] # NoPage
              /\ Holds(s, ep, ei) /\ <<q, h>> # <<ep, ei>>
              /\ s.procs[q].table[h][j] = s.procs[ep].table[ei][m]
          BY <3>2, <3>3, <3>4, <4>1, <4>2, Zenon
        <4>4. s.procs[q].table[h] # NoPage /\ j \in Offset /\ m \in Offset
          BY <1>9, <2>3
        <4>5. QED
          BY <2>1, <4>3, <4>4, OwnLines
      <3>6. QED
        BY <1>7, <3>1, <3>5 DEF x
    <2>. HIDE DEF x
    <2>4. x \notin Freed(s)
      BY <1>4, <1>6, <2>3
    <2>5. ASSUME NEW k \in 1 .. 3, x = at[k] PROVE FALSE
      <3>1. CASE at[k] \in FreeSet(s)
        BY <1>7, <2>2, <2>5, <3>1 DEF FreeSet
      <3>2. CASE Evicts(s) /\ at[k] \in Range(v)
        BY <1>4, <2>3, <2>5, <3>2
      <3>3. QED
        BY <1>3, <3>1, <3>2
    <2>6. QED
      BY <2>4, <2>5 DEF x
  <1>10. Freed(s) \subseteq Frames
    BY <1>4, <1>6
  <1>11. QED
    BY <1>1, <1>2, <1>3, <1>5, <1>8, <1>9, <1>10 DEF at, e, v

-----------------------------------------------------------------------------
(* The frame store after a page was loaded, and the state it is in.        *)
LEMMA LoadedLinesAre ==
  ASSUME NEW U, NEW s, StateOK(s, U), Outcome(s) = "alive", NEW p \in DOMAIN s.procs,
         s.procs[p].loaded < LineCount(s.procs[p].script), NEW initial \in BOOLEAN
  PROVE  LET q == s.procs[p]
             n == LoadedTo(q)
             at == Taken(s)
             new == LoadedLines(s, p, initial)
         IN /\ new \in [Frames -> LineRecord]
            /\ \A j \in 1 .. 3 : new[at[j]] = IF q.loaded + j <= n THEN Line(p, q.loaded + j)
                                              ELSE IF initial THEN Line(p, n) ELSE Filling(p)
            /\ \A i \in Frames : i \notin Freed(s) /\ (\A j \in 1 .. 3 : at[j] # i)
                 => new[i] = s.lines[i]
  <1>. DEFINE q == s.procs[p]
              n == LoadedTo(q)
              at == Taken(s)
              new == LoadedLines(s, p, initial)
              Text(j) == IF q.loaded + j <= n THEN Line(p, q.loaded + j)
                         ELSE IF initial THEN Line(p, n) ELSE Filling(p)
              J(i) == CHOOSE j \in 1 .. 3 : at[j] = i
  <1>1. new = [i \in Frames |-> IF \E j \in 1 .. 3 : at[j] = i THEN Text(J(i))
                                ELSE IF i \in Freed(s) THEN Free ELSE s.lines[i]]
    BY DEF LoadedLines
  <1>2. /\ \A j \in 1 .. 3 : at[j] \in Frames
        /\ \A j, k \in 1 .. 3 : at[j] = at[k] => j = k
    BY TakenFromNobody
  <1>3. p \in Nat /\ q \in PcbSet /\ PcbOK(q)
    BY PcbIs
  <1>4. n \in Nat /\ q.loaded \in Nat
    BY <1>3, NextPageIs DEF PcbSet
  <1>5. s.lines \in [Frames -> LineRecord]
    BY DEF StateOK, StateSet
  <1>6. Free \in LineRecord
    BY DEF Free, LineRecord
  <1>7. ASSUME NEW j \in 1 .. 3 PROVE Text(j) \in LineRecord
    BY <1>3, <1>4 DEF Line, Filling, LineRecord
  <1>8. \A j \in 1 .. 3 : J(at[j]) = j
    BY <1>2
  <1>9. \A i \in Frames : (\E j \in 1 .. 3 : at[j] = i) => J(i) \in 1 .. 3
    OBVIOUS
  <1>. HIDE DEF new, at, J, Text
  <1>10. new \in [Frames -> LineRecord]
    BY <1>1, <1>5, <1>6, <1>7, <1>9
  <1>11. \A j \in 1 .. 3 : new[at[j]] = Text(j)
    BY <1>1, <1>2, <1>8
  <1>12. \A i \in Frames : i \notin Freed(s) /\ (\A j \in 1 .. 3 : at[j] # i)
           => new[i] = s.lines[i]
    BY <1>1
  <1>13. QED
    BY <1>10, <1>11, <1>12 DEF new, at, Text

LEMMA LoadedIs ==
  ASSUME NEW U, NEW s, StateOK(s, U), Outcome(s) = "alive", NEW p \in DOMAIN s.procs,
         s.procs[p].loaded < LineCount(s.procs[p].script), NEW initial \in BOOLEAN
  PROVE  LET t == Loaded(s, p, initial)
         IN /\ t \in StateSet /\ t.lines = LoadedLines(s, p, initial)
            /\ t.lru = Popped(s) /\ t.queue = s.queue /\ t.fate = "alive"
            /\ DOMAIN t.procs = DOMAIN s.procs
            /\ t.procs[p] = LoadedPcb(s.procs[p], Taken(s), initial)
            /\ \A o \in DOMAIN s.procs \ {p} : t.procs[o] = s.procs[o]
  <1>. DEFINE a == LoadedLines(s, p, initial)
              d == Popped(s)
              b == LoadedPcb(s.procs[p], Taken(s), initial)
              t == Loaded(s, p, initial)
              A == [Frames -> LineRecord]
              Q == Seq(Nat)
              D == Seq(LRUEntry)
  <1>1. t = [s EXCEPT !.lines = a, !.lru = d, !.procs[p] = b]
    BY DEF Loaded
  <1>2. a \in A
    BY LoadedLinesAre
  <1>3. d \in D /\ s.fate = "alive" /\ \A j \in 1 .. 3 : Taken(s)[j] \in Frames
    BY TakenFromNobody
  <1>4. s.procs[p] \in PcbSet /\ PcbOK(s.procs[p])
    BY PcbIs
  <1>5. b \in PcbSet
    BY <1>3, <1>4, LoadedPcbIs
  <1>6. s \in [lines : A, procs : Seq(PcbSet), queue : Q, lru : D, fate : Fate]
    BY DEF StateOK, StateSet
  <1>. HIDE DEF a, b, d, t, A, Q, D
  <1>7. /\ t \in [lines : A, procs : Seq(PcbSet), queue : Q, lru : D, fate : Fate]
        /\ t.lines = a /\ t.lru = d /\ t.queue = s.queue /\ t.fate = s.fate
        /\ DOMAIN t.procs = DOMAIN s.procs /\ t.procs[p] = b
        /\ \A o \in DOMAIN s.procs \ {p} : t.procs[o] = s.procs[o]
    <2>1. s.procs \in Seq(PcbSet) /\ [s.procs EXCEPT ![p] = b] \in Seq(PcbSet)
      BY <1>5, <1>6
    <2>2. QED
      BY <1>1, <1>2, <1>3, <1>5, <1>6, <2>1
  <1>8. QED
    BY <1>3, <1>7 DEF StateSet, a, b, d, t, A, Q, D

(* Loading the next page of a process keeps the state right: the lines of  *)
(* the page are there, and the pages that are live lose none.              *)
LEMMA LoadedOK ==
  ASSUME NEW U, NEW s, StateOK(s, U), Outcome(s) = "alive", NEW p \in DOMAIN s.procs,
         s.procs[p].loaded < LineCount(s.procs[p].script), NEW initial \in BOOLEAN,
         initial => s.procs[p].loaded \in {0, 3},
         \A i \in s.procs[p].page .. s.procs[p].loaded \div 3 - 1 : <<p, i>> \notin U
  PROVE  StateOK(Loaded(s, p, initial), U)
  <1>. DEFINE q == s.procs[p]
              page == q.loaded \div 3
              n == LoadedTo(q)
              count == LineCount(q.script)
              at == Taken(s)
              t == Loaded(s, p, initial)
              e == Head(s.lru)
  <1>1. /\ p \in Nat \ {0} /\ q \in PcbSet /\ PcbOK(q) /\ DOMAIN q.table \subseteq Nat
    BY PcbIs
  <1>2. /\ page \in DOMAIN q.table /\ q.table[page] = NoPage
        /\ page \in Nat /\ n \in Nat /\ count \in Nat /\ q.loaded = 3 * page
        /\ n = IF q.loaded + 3 <= count THEN q.loaded + 3 ELSE count
    BY <1>1, NextPageIs
  <1>3. /\ t \in StateSet /\ t.lru = Popped(s) /\ t.fate = "alive"
        /\ DOMAIN t.procs = DOMAIN s.procs
        /\ t.procs[p] = LoadedPcb(q, at, initial)
        /\ \A o \in DOMAIN s.procs \ {p} : t.procs[o] = s.procs[o]
    BY LoadedIs
  <1>4. /\ \A j \in 1 .. 3 : t.lines[at[j]] =
                IF q.loaded + j <= n THEN Line(p, q.loaded + j)
                ELSE IF initial THEN Line(p, n) ELSE Filling(p)
        /\ \A i \in Frames : i \notin Freed(s) /\ (\A j \in 1 .. 3 : at[j] # i)
             => t.lines[i] = s.lines[i]
    BY LoadedIs, LoadedLinesAre
  <1>5. /\ \A j \in 1 .. 3 : at[j] \in Frames
        /\ \A j, k \in 1 .. 3 : at[j] = at[k] => j = k
        /\ IsInjective(Popped(s)) /\ ToSet(Popped(s)) \subseteq ToSet(s.lru)
        /\ Evicts(s) => s.lru # <<>>
    BY TakenFromNobody
  <1>6. ASSUME NEW o \in DOMAIN s.procs, NEW h \in DOMAIN s.procs[o].table,
               s.procs[o].table[h] # NoPage, LiveIn(s, U, o, h),
               Evicts(s) => <<o, h>> # <<e.pid, e.page>>, NEW j \in Offset
        PROVE  /\ s.procs[o].table[h][j] \notin Freed(s)
               /\ \A k \in 1 .. 3 : s.procs[o].table[h][j] # at[k]
    <2>1. \A a \in DOMAIN s.procs : \A i \in DOMAIN s.procs[a].table :
            s.procs[a].table[i] # NoPage /\ LiveIn(s, U, a, i)
            /\ (Evicts(s) => <<a, i>> # <<e.pid, e.page>>)
            => \A m \in Offset :
                 /\ s.procs[a].table[i][m] \notin Freed(s)
                 /\ \A k \in 1 .. 3 : s.procs[a].table[i][m] # at[k]
      BY TakenFromNobody, SMTT(30)
    <2>. HIDE DEF at, e
    <2>2. QED
      BY <1>6, <2>1, Zenon
  <1>7. Evicts(s) => <<e.pid, e.page>> \in U /\ Entry(e.pid, e.page) \notin ToSet(Popped(s))
    <2>1. SUFFICES ASSUME Evicts(s)
                   PROVE  <<e.pid, e.page>> \in U /\ Entry(e.pid, e.page) \notin ToSet(Popped(s))
      OBVIOUS
    <2>2. s.lru # <<>>
      BY <1>5, <2>1
    <2>3. /\ e = Entry(e.pid, e.page) /\ <<e.pid, e.page>> \in U
          /\ ToSet(Popped(s)) = ToSet(s.lru) \ {e}
      BY <2>1, <2>2, VictimIs, Zenon
    <2>. HIDE DEF e
    <2>4. e \notin ToSet(Popped(s))
      BY <2>3, Zenon
    <2>5. QED
      BY <2>3, <2>4, Zenon
  <1>8. /\ DOMAIN t.procs[p].table = DOMAIN q.table /\ t.procs[p].script = q.script
        /\ t.procs[p].table[page] \in [Offset -> Index]
        /\ \A j \in Offset : t.procs[p].table[page][j] =
             IF initial /\ q.loaded + j + 1 > n THEN NoIndex ELSE at[j + 1]
        /\ \A h \in DOMAIN q.table \ {page} : t.procs[p].table[h] = q.table[h]
    <2>1. PICK new : new = LoadedPcb(q, at, initial)
      OBVIOUS
    <2>2. q.loaded < LineCount(q.script)
      OBVIOUS
    <2>. HIDE DEF q, at
    <2>3. /\ DOMAIN new.table = DOMAIN q.table /\ new.script = q.script
          /\ new.table[q.loaded \div 3] \in [Offset -> Index]
          /\ \A j \in Offset :
               new.table[q.loaded \div 3][j] =
                 IF initial /\ q.loaded + j + 1 > LoadedTo(q) THEN NoIndex ELSE at[j + 1]
          /\ \A h \in DOMAIN q.table \ {q.loaded \div 3} : new.table[h] = q.table[h]
      BY <1>1, <1>5, <2>1, <2>2, LoadedPcbIs
    <2>4. t.procs[p] = new
      BY <1>3, <2>1
    <2>5. QED
      BY <2>3, <2>4, Zenon
  <1>9. /\ \A i \in q.page .. page - 1 : <<p, i>> \notin U
        /\ initial => q.loaded \in {0, 3}
    OBVIOUS
  <1>10. q.page \in Nat /\ \A i \in DOMAIN q.table : q.table[i] # NoPage <=> 3 * i < q.loaded
    BY <1>1 DEF PcbOK, PcbSet
  <1>11. PcbOK(t.procs[p])
    <2>1. ASSUME NEW i \in q.page .. page - 1, NEW j \in Offset, NEW k \in 1 .. 3
          PROVE  q.table[i][j] # at[k]
      <3>1. <<p, i>> \notin U
        BY <1>9
      <3>2. i \in DOMAIN q.table /\ 3 * i < q.loaded
        <4>1. i \in Nat /\ i < page
          BY <1>2, <1>10
        <4>2. DOMAIN q.table = 0 .. count \div 3
          BY <1>1 DEF PcbOK
        <4>3. count \div 3 \in Nat
          BY <1>2, Div3
        <4>4. QED
          BY <1>2, <4>1, <4>2, <4>3
      <3>3. q.table[i] # NoPage
        BY <1>10, <3>2
      <3>4. LiveIn(s, U, p, i)
        BY <3>1 DEF LiveIn
      <3>5. Evicts(s) => <<p, i>> # <<e.pid, e.page>>
        BY <1>7, <3>1
      <3>6. QED
        BY <1>6, <3>2, <3>3, <3>4, <3>5
    <2>2. q.loaded < count
      OBVIOUS
    <2>. HIDE DEF t, at
    <2>3. PcbOK(LoadedPcb(q, at, initial))
      BY <1>1, <1>5, <1>9, <2>1, <2>2, LoadedPcbOK
    <2>4. QED
      BY <1>3, <2>3
  <1>. HIDE DEF t, at, e
  <1>12. Holds(t, p, page)
    <2>1. ASSUME NEW j \in Offset
          PROVE  LET k == t.procs[p].table[page][j]
                     m == 3 * page + j + 1
                 IN IF m <= count THEN t.lines[k] = Line(p, m)
                    ELSE k = NoIndex \/ t.lines[k] = Filling(p)
      <3>1. j \in 0 .. 2 /\ j + 1 \in 1 .. 3 /\ q.loaded + (j + 1) = q.loaded + j + 1
        BY <1>2 DEF Offset
      <3>2. 3 * page + j + 1 = q.loaded + j + 1
        BY <1>2
      <3>3. q.loaded + j + 1 <= count <=> q.loaded + j + 1 <= n
        BY <1>2, <3>1
      <3>4. q.loaded + j + 1 <= n <=> ~(q.loaded + j + 1 > n)
        BY <1>2, <3>1
      <3>. HIDE DEF q, page, n, count
      <3>5. CASE q.loaded + j + 1 <= n
        <4>1. t.procs[p].table[page][j] = at[j + 1]
          BY <1>8, <3>4, <3>5
        <4>2. t.lines[at[j + 1]] = Line(p, q.loaded + j + 1)
          BY <1>4, <3>1, <3>5
        <4>3. QED
          BY <3>2, <3>3, <3>5, <4>1, <4>2
      <3>6. CASE ~(q.loaded + j + 1 <= n)
        <4>1. t.procs[p].table[page][j] = IF initial THEN NoIndex ELSE at[j + 1]
          BY <1>8, <3>4, <3>6
        <4>2. ~initial => t.lines[at[j + 1]] = Filling(p)
          BY <1>4, <3>1, <3>6
        <4>3. QED
          BY <3>2, <3>3, <3>6, <4>1, <4>2
      <3>7. QED
        BY <3>5, <3>6
    <2>2. QED
      BY <1>8, <2>1 DEF Holds
  <1>13. ASSUME NEW o \in DOMAIN s.procs, NEW h \in DOMAIN s.procs[o].table,
                <<o, h>> # <<p, page>>
         PROVE  /\ t.procs[o].table[h] = s.procs[o].table[h]
                /\ t.procs[o].script = s.procs[o].script
    BY <1>3, <1>8, <1>13
  <1>14. ASSUME NEW o \in DOMAIN s.procs
         PROVE  DOMAIN t.procs[o].table = DOMAIN s.procs[o].table
    BY <1>3, <1>8
  <1>15. ASSUME NEW o \in DOMAIN s.procs, NEW h \in DOMAIN s.procs[o].table,
                t.procs[o].table[h] # NoPage, LiveIn(t, U, o, h)
         PROVE  Holds(t, o, h)
    <2>1. CASE <<o, h>> = <<p, page>>
      BY <1>12, <2>1
    <2>2. CASE <<o, h>> # <<p, page>>
      <3>1. s.procs[o].table[h] # NoPage
        BY <1>13, <1>15, <2>2
      <3>2. LiveIn(s, U, o, h)
        BY <1>3, <1>5, <1>15 DEF LiveIn
      <3>3. Evicts(s) => <<o, h>> # <<e.pid, e.page>>
        BY <1>3, <1>7, <1>15 DEF LiveIn
      <3>4. Holds(s, o, h)
        BY <3>1, <3>2 DEF StateOK
      <3>5. /\ s.procs[o].table[h] \in [Offset -> Index] /\ h \in Nat
            /\ LineCount(s.procs[o].script) \in Nat /\ PageOK(s.procs[o], h)
        <4>1. PcbOK(s.procs[o])
          BY PcbIs
        <4>2. PageOK(s.procs[o], h)
          BY <3>1, <4>1 DEF PcbOK
        <4>3. QED
          BY <3>1, <4>2, PcbIs
      <3>6. ASSUME NEW j \in Offset, s.procs[o].table[h][j] # NoIndex
            PROVE  t.lines[s.procs[o].table[h][j]] = s.lines[s.procs[o].table[h][j]]
        <4>1. s.procs[o].table[h][j] \in Frames
          BY <3>5, <3>6 DEF Index
        <4>2. /\ s.procs[o].table[h][j] \notin Freed(s)
              /\ \A k \in 1 .. 3 : s.procs[o].table[h][j] # at[k]
          BY <1>6, <3>1, <3>2, <3>3
        <4>3. QED
          BY <1>4, <4>1, <4>2
      <3>7. ASSUME NEW j \in Offset, 3 * h + j + 1 <= LineCount(s.procs[o].script)
            PROVE  s.procs[o].table[h][j] # NoIndex
        <4>1. 3 * h + j < LineCount(s.procs[o].script)
          BY <3>5, <3>7 DEF Offset
        <4>2. s.procs[o].table[h][j] \in Frames
          BY <3>5, <4>1 DEF PageOK
        <4>3. QED
          BY <4>2 DEF Frames, NoIndex
      <3>8. t.procs[o].table[h] = s.procs[o].table[h] /\ t.procs[o].script = s.procs[o].script
        BY <1>13, <2>2
      <3>9. QED
        BY <3>4, <3>6, <3>7, <3>8 DEF Holds
    <2>3. QED
      BY <2>1, <2>2
  <1>16. ASSUME NEW o \in DOMAIN s.procs PROVE PcbOK(t.procs[o])
    <2>1. PcbOK(s.procs[o])
      BY PcbIs
    <2>2. QED
      BY <1>3, <1>11, <2>1
  <1>17. ASSUME NEW x \in ToSet(t.lru)
         PROVE  /\ x.pid \in DOMAIN t.procs /\ x.page \in DOMAIN t.procs[x.pid].table
                /\ t.procs[x.pid].table[x.page] # NoPage /\ <<x.pid, x.page>> \in U
    <2>1. /\ x.pid \in DOMAIN s.procs /\ x.page \in DOMAIN s.procs[x.pid].table
          /\ s.procs[x.pid].table[x.page] # NoPage /\ <<x.pid, x.page>> \in U
      BY <1>3, <1>5, <1>17 DEF StateOK
    <2>2. <<x.pid, x.page>> # <<p, page>>
      BY <1>2, <2>1
    <2>3. t.procs[x.pid].table[x.page] = s.procs[x.pid].table[x.page]
      BY <1>13, <2>1, <2>2
    <2>4. QED
      BY <1>3, <1>14, <2>1, <2>3
  <1>18. StateOK(t, U)
    BY <1>3, <1>5, <1>14, <1>15, <1>16, <1>17 DEF StateOK
  <1>19. QED
    BY <1>18 DEF t

LEMMA LoadedKeeps ==
  ASSUME NEW U, NEW s, StateOK(s, U), NEW p \in DOMAIN s.procs,
         s.procs[p].loaded < LineCount(s.procs[p].script), NEW initial \in BOOLEAN,
         initial => s.procs[p].loaded \in {0, 3},
         \A i \in s.procs[p].page .. s.procs[p].loaded \div 3 - 1 : <<p, i>> \notin U
  PROVE  LET t == Loaded(s, p, initial)
         IN /\ StateOK(t, U) /\ t.queue = s.queue /\ DOMAIN t.procs = DOMAIN s.procs
            /\ \A o \in DOMAIN s.procs \ {p} : t.procs[o] = s.procs[o]
            /\ t.procs[p].script = s.procs[p].script
            /\ t.procs[p].page = s.procs[p].page /\ t.procs[p].line = s.procs[p].line
            /\ t.fate = "alive" =>
                 s.fate = "alive" /\ t.procs[p].loaded = LoadedTo(s.procs[p])
            /\ t.fate # "alive" => t.procs = s.procs
            /\ t.fate = "ended" => s.fate = "ended"
  <1>. DEFINE t == Loaded(s, p, initial)
  <1>1. CASE Outcome(s) # "alive"
    <2>1. /\ StateOK(t, U) /\ t.procs = s.procs /\ t.queue = s.queue
          /\ t.fate # "alive" /\ (s.fate # "ended" => t.fate # "ended")
      BY <1>1, LoadedFails
    <2>. HIDE DEF t
    <2>2. QED
      BY <2>1 DEF t
  <1>2. CASE Outcome(s) = "alive"
    <2>1. StateOK(t, U)
      BY <1>2, LoadedOK
    <2>2. /\ t.queue = s.queue /\ t.fate = "alive"
          /\ DOMAIN t.procs = DOMAIN s.procs
          /\ t.procs[p] = LoadedPcb(s.procs[p], Taken(s), initial)
          /\ \A o \in DOMAIN s.procs \ {p} : t.procs[o] = s.procs[o]
      BY <1>2, LoadedIs
    <2>3. s.fate = "alive" /\ \A j \in 1 .. 3 : Taken(s)[j] \in Frames
      BY <1>2, TakenFromNobody
    <2>4. s.procs[p] \in PcbSet /\ PcbOK(s.procs[p])
      BY PcbIs
    <2>. HIDE DEF t
    <2>5. /\ t.procs[p].script = s.procs[p].script
          /\ t.procs[p].page = s.procs[p].page /\ t.procs[p].line = s.procs[p].line
          /\ t.procs[p].loaded = LoadedTo(s.procs[p])
      BY <2>2, <2>3, <2>4, LoadedPcbIs
    <2>6. QED
      BY <2>1, <2>2, <2>3, <2>5 DEF t
  <1>3. QED
    BY <1>1, <1>2

-----------------------------------------------------------------------------
(* A new process.                                                          *)
LEMMA PcbFresh ==
  ASSUME NEW f \in Name
  PROVE  /\ Pcb(f) \in PcbSet /\ PcbOK(Pcb(f))
         /\ Pcb(f).script = f /\ Pcb(f).page = 0 /\ Pcb(f).line = 0 /\ Pcb(f).loaded = 0
         /\ \A i \in DOMAIN Pcb(f).table : Pcb(f).table[i] = NoPage
  <1>. DEFINE q == Pcb(f)
              count == LineCount(f)
              table == [i \in 0 .. count \div 3 |-> NoPage]
  <1>1. count \in Nat \ {0}
    BY LineCountType
  <1>2. q = [script |-> f, page |-> 0, line |-> 0, loaded |-> 0, last |-> NoIndex,
             lastPage |-> -1, table |-> table]
    BY DEF Pcb
  <1>. HIDE DEF count
  <1>3. count \div 3 \in Nat
    BY <1>1, Div3
  <1>4. table \in Table
    BY <1>3 DEF Table, TableEntry
  <1>5. \A i \in DOMAIN table : table[i] = NoPage
    OBVIOUS
  <1>6. DOMAIN table = 0 .. count \div 3
    OBVIOUS
  <1>7. 0 \in Offset /\ NoIndex \in Index
    BY DEF Offset, Index
  <1>. HIDE DEF q, table
  <1>8. q \in PcbSet
    BY <1>2, <1>4, <1>7 DEF PcbSet
  <1>9. /\ q.script = f /\ q.page = 0 /\ q.line = 0 /\ q.loaded = 0 /\ q.table = table
        /\ q.last = NoIndex /\ q.lastPage = -1
    BY <1>2
  <1>10. 0 % 3 = 0 /\ LineCount(q.script) = count
    BY <1>9 DEF count
  <1>11. \A i \in DOMAIN q.table : i \in Nat /\ q.table[i] = NoPage
    BY <1>3, <1>5, <1>6, <1>9
  <1>12. PcbOK(q)
    BY <1>1, <1>6, <1>9, <1>10, <1>11 DEF PcbOK
  <1>13. QED
    BY <1>8, <1>9, <1>11, <1>12 DEF q

(* makePCB and enqueue: the process has no page yet.                       *)
Made(s, f) == [s EXCEPT !.procs = Append(@, Pcb(f)), !.queue = Append(@, Len(s.procs) + 1)]

LEMMA MadeOK ==
  ASSUME NEW U, NEW s, StateOK(s, U), NEW f \in Name
  PROVE  LET p == Len(s.procs) + 1
             t == Made(s, f)
         IN /\ StateOK(t, U) /\ t.queue = Append(s.queue, p) /\ t.fate = s.fate
            /\ p \in Nat \ {0} /\ p \notin DOMAIN s.procs
            /\ DOMAIN t.procs = DOMAIN s.procs \cup {p} /\ t.procs[p] = Pcb(f)
            /\ \A o \in DOMAIN s.procs : t.procs[o] = s.procs[o]
  <1>. DEFINE p == Len(s.procs) + 1
              procs2 == Append(s.procs, Pcb(f))
              queue2 == Append(s.queue, p)
              t == Made(s, f)
  <1>1. /\ s.lines \in [Frames -> LineRecord] /\ s.procs \in Seq(PcbSet)
        /\ s.queue \in Seq(Nat) /\ s.lru \in Seq(LRUEntry) /\ s.fate \in Fate
        /\ s \in StateSet
    BY DEF StateOK, StateSet
  <1>2. /\ Pcb(f) \in PcbSet /\ PcbOK(Pcb(f))
        /\ \A i \in DOMAIN Pcb(f).table : Pcb(f).table[i] = NoPage
    BY PcbFresh
  <1>3. /\ p \in Nat \ {0} /\ p \notin DOMAIN s.procs /\ procs2 \in Seq(PcbSet)
        /\ DOMAIN procs2 = DOMAIN s.procs \cup {p} /\ procs2[p] = Pcb(f)
        /\ \A o \in DOMAIN s.procs : procs2[o] = s.procs[o]
    BY <1>1, <1>2
  <1>4. queue2 \in Seq(Nat)
    BY <1>1, <1>3
  <1>5. t = [s EXCEPT !.procs = procs2, !.queue = queue2]
    BY DEF Made
  <1>. HIDE DEF t, procs2, queue2, p
  <1>6. /\ t \in StateSet /\ t.lines = s.lines /\ t.lru = s.lru /\ t.fate = s.fate
        /\ t.procs = procs2 /\ t.queue = queue2
    BY <1>1, <1>3, <1>4, <1>5 DEF StateSet
  <1>7. \A o \in DOMAIN t.procs : PcbOK(t.procs[o])
    BY <1>2, <1>3, <1>6, PcbIs
  <1>8. ASSUME NEW o \in DOMAIN t.procs, NEW i \in DOMAIN t.procs[o].table,
               t.procs[o].table[i] # NoPage, LiveIn(t, U, o, i)
        PROVE  Holds(t, o, i)
    <2>1. o \in DOMAIN s.procs /\ t.procs[o] = s.procs[o]
      BY <1>2, <1>3, <1>6, <1>8
    <2>2. LiveIn(s, U, o, i)
      BY <1>6, <1>8 DEF LiveIn
    <2>3. Holds(s, o, i)
      BY <1>8, <2>1, <2>2 DEF StateOK
    <2>4. QED
      BY <1>6, <2>1, <2>3 DEF Holds
  <1>9. ASSUME NEW e \in ToSet(t.lru)
        PROVE  /\ e.pid \in DOMAIN t.procs /\ e.page \in DOMAIN t.procs[e.pid].table
               /\ t.procs[e.pid].table[e.page] # NoPage /\ <<e.pid, e.page>> \in U
    BY <1>3, <1>6, <1>9 DEF StateOK
  <1>10. IsInjective(t.lru)
    BY <1>6 DEF StateOK
  <1>11. t.fate = "undefined" => \E o \in DOMAIN t.procs : ShortPage(t.procs[o])
    BY <1>3, <1>6 DEF StateOK
  <1>12. StateOK(t, U)
    BY <1>6, <1>7, <1>8, <1>9, <1>10, <1>11 DEF StateOK
  <1>13. QED
    BY <1>3, <1>6, <1>12 DEF t, procs2, queue2, p

LEMMA NewProcessOK ==
  ASSUME NEW U, NEW s, StateOK(s, U), NEW f \in Name, \A u \in U : u[1] \in DOMAIN s.procs
  PROVE  LET p == Len(s.procs) + 1
             t == NewProcess(s, f)
         IN /\ StateOK(t, U) /\ t.queue = Append(s.queue, p)
            /\ t.fate = "ended" => s.fate = "ended"
            /\ p \in Nat \ {0} /\ p \notin DOMAIN s.procs
            /\ DOMAIN t.procs = DOMAIN s.procs \cup {p}
            /\ \A o \in DOMAIN s.procs : t.procs[o] = s.procs[o]
            /\ t.procs[p].script = f /\ t.procs[p].page = 0 /\ t.procs[p].line = 0
  <1>. DEFINE p == Len(s.procs) + 1
              initial == TRUE
              made == Made(s, f)
              one == Loaded(made, p, initial)
              two == Loaded(one, p, initial)
              count == LineCount(f)
              t == NewProcess(s, f)
  <1>1. /\ StateOK(made, U) /\ made.queue = Append(s.queue, p) /\ made.fate = s.fate
        /\ p \in Nat \ {0} /\ p \notin DOMAIN s.procs
        /\ DOMAIN made.procs = DOMAIN s.procs \cup {p} /\ made.procs[p] = Pcb(f)
        /\ \A o \in DOMAIN s.procs : made.procs[o] = s.procs[o]
    BY MadeOK
  <1>2. t = IF count <= 3 THEN one ELSE two
    BY DEF NewProcess, Made
  <1>3. count \in Nat \ {0}
    BY LineCountType
  <1>4. /\ made.procs[p].script = f /\ made.procs[p].page = 0 /\ made.procs[p].line = 0
        /\ made.procs[p].loaded = 0
    BY <1>1, PcbFresh
  <1>5. \A i : <<p, i>> \notin U
    <2>1. ASSUME NEW i, <<p, i>> \in U PROVE FALSE
      <3>1. <<p, i>>[1] \in DOMAIN s.procs
        BY <2>1
      <3>2. QED
        BY <1>1, <3>1
    <2>2. QED
      BY <2>1
  <1>6. p \in DOMAIN made.procs /\ made.procs[p].loaded < LineCount(made.procs[p].script)
    BY <1>1, <1>3, <1>4
  <1>7. initial \in BOOLEAN
    OBVIOUS
  <1>. HIDE DEF made, t, p, initial
  <1>8. /\ StateOK(one, U) /\ one.queue = made.queue /\ DOMAIN one.procs = DOMAIN made.procs
        /\ \A o \in DOMAIN made.procs \ {p} : one.procs[o] = made.procs[o]
        /\ one.procs[p].script = made.procs[p].script
        /\ one.procs[p].page = made.procs[p].page /\ one.procs[p].line = made.procs[p].line
        /\ one.fate = "alive" => one.procs[p].loaded = LoadedTo(made.procs[p])
        /\ one.fate # "alive" => one.procs = made.procs
        /\ one.fate = "ended" => made.fate = "ended"
    BY <1>1, <1>4, <1>5, <1>6, <1>7, LoadedKeeps
  <1>9. LoadedTo(made.procs[p]) = IF 3 <= count THEN 3 ELSE count
    <2>1. made.procs[p].loaded + 3 = 3
      BY <1>4
    <2>2. QED
      BY <1>3, <1>4, <2>1, MinOfTwo DEF LoadedTo
  <1>. HIDE DEF one
  <1>10. count > 3 => /\ one.procs[p].loaded \in {0, 3}
                     /\ one.procs[p].loaded < LineCount(one.procs[p].script)
    <2>1. count > 3 => one.procs[p].loaded \in {0, 3}
      BY <1>3, <1>4, <1>8, <1>9
    <2>2. one.procs[p].script = f
      BY <1>4, <1>8
    <2>3. QED
      BY <1>3, <2>1, <2>2
  <1>11. ASSUME count > 3
         PROVE  /\ StateOK(two, U) /\ two.queue = one.queue
                /\ DOMAIN two.procs = DOMAIN one.procs
                /\ \A o \in DOMAIN one.procs \ {p} : two.procs[o] = one.procs[o]
                /\ two.procs[p].script = one.procs[p].script
                /\ two.procs[p].page = one.procs[p].page
                /\ two.procs[p].line = one.procs[p].line
                /\ two.fate = "ended" => one.fate = "ended"
    BY <1>5, <1>6, <1>8, <1>10, <1>11, <1>7, LoadedKeeps
  <1>. HIDE DEF two
  <1>12. CASE count <= 3
    BY <1>1, <1>2, <1>4, <1>8, <1>12 DEF t, p
  <1>13. CASE ~(count <= 3)
    <2>1. count > 3
      BY <1>3, <1>13
    <2>2. QED
      BY <1>1, <1>2, <1>4, <1>8, <1>11, <1>13, <2>1 DEF t, p
  <1>14. QED
    BY <1>12, <1>13

-----------------------------------------------------------------------------
(* The steps.                                                              *)
LEMMA NowIs ==
  ASSUME NEW t, t \in StateSet, t.lines = lines', t.procs = procs', t.queue = queue',
         t.lru = lru', t.fate = fate'
  PROVE  Now' = t
  BY DEF Now, StateSet

LEMMA BegunAre ==
  ASSUME NEW p, NEW i
  PROVE  <<p, i>> \in BegunPages <=> p \in Nat /\ i \in Nat /\ p \in DOMAIN procs /\ Begun(p, i)
  BY DEF BegunPages

LEMMA SInvInit == Init => SInv
  <1>. SUFFICES ASSUME Init PROVE SInv
    OBVIOUS
  <1>1. /\ lines = [i \in Frames |-> Free] /\ procs = <<>> /\ queue = <<>> /\ lru = <<>>
        /\ fate = "alive" /\ policy = "prompt" /\ loading = <<>> /\ running = 0
        /\ left = 0 /\ ran = <<>>
    BY DEF Init
  <1>2. Now \in StateSet
    <2>1. lines \in [Frames -> LineRecord]
      BY <1>1 DEF Free, LineRecord
    <2>2. /\ procs \in Seq(PcbSet) /\ queue \in Seq(Nat) /\ lru \in Seq(LRUEntry)
          /\ fate \in Fate
      BY <1>1 DEF Fate
    <2>3. QED
      BY <2>1, <2>2 DEF StateSet, Now
  <1>3. DOMAIN procs = {} /\ DOMAIN queue = {} /\ DOMAIN lru = {} /\ DOMAIN ran = {}
    BY <1>1
  <1>4. ToSet(queue) = {} /\ ToSet(lru) = {} /\ IsInjective(queue) /\ IsInjective(lru)
    BY <1>3 DEF ToSet, IsInjective
  <1>5. StateOK(Now, BegunPages)
    <2>1. Now.procs = procs /\ Now.lru = lru /\ Now.fate = "alive"
      BY <1>1 DEF Now
    <2>. HIDE DEF Now
    <2>2. QED
      BY <1>2, <1>3, <1>4, <2>1 DEF StateOK
  <1>6. QueueOK
    BY <1>1, <1>3, <1>4 DEF QueueOK
  <1>7. TurnOK
    BY <1>1 DEF TurnOK, Quantum
  <1>8. RanOK
    BY <1>3 DEF RanOK
  <1>9. QED
    BY <1>5, <1>6, <1>7, <1>8 DEF SInv

LEMMA StillKeeps ==
  ASSUME SInv, UNCHANGED <<lines, procs, queue, lru, fate, running, ran>>, TurnOK'
  PROVE  SInv'
  <1>1. Now' = Now
    BY DEF Now
  <1>2. BegunPages' = BegunPages
    BY DEF BegunPages, Begun, Finished
  <1>3. StateOK(Now', BegunPages')
    BY <1>1, <1>2 DEF SInv
  <1>4. QueueOK'
    BY DEF SInv, QueueOK
  <1>5. RanOK'
    BY DEF SInv, RanOK, Finished
  <1>6. QED
    BY <1>3, <1>4, <1>5 DEF SInv

LEMMA AsksKeeps ==
  ASSUME SInv, NEW e \in Seq(Name \cup {Missing}), NEW how \in {"FCFS", "RR"}, Asks(e, how)
  PROVE  SInv'
  <1>1. TurnOK'
    BY DEF SInv, TurnOK, Asks, Prompt
  <1>2. QED
    BY <1>1, StillKeeps DEF Asks

LEMMA AdmitKeeps ==
  ASSUME SInv, Admit
  PROVE  SInv'
  <1>. DEFINE f == Head(loading)
              t == NewProcess(Now, f)
              U == BegunPages
  <1>1. PICK p : p = Len(procs) + 1
    OBVIOUS
  <1>2. /\ StateOK(Now, U) /\ QueueOK /\ TurnOK /\ RanOK
        /\ loading # <<>> /\ f # Missing /\ loading' = Tail(loading) /\ ran' = Records
        /\ UNCHANGED <<policy, running, left>>
    BY DEF SInv, Admit
  <1>3. /\ t.lines = lines' /\ t.procs = procs' /\ t.queue = queue'
        /\ t.lru = lru' /\ t.fate = fate'
    BY DEF Admit, Becomes
  <1>4. f \in Name /\ Tail(loading) \in Seq(Name \cup {Missing})
    BY <1>2 DEF TurnOK
  <1>5. Now.procs = procs /\ Now.queue = queue
    BY DEF Now
  <1>6. \A u \in U : u[1] \in DOMAIN procs
    BY DEF BegunPages
  <1>. HIDE DEF f, U
  <1>7. /\ StateOK(t, U) /\ t.queue = Append(queue, p) /\ p \in Nat \ {0} /\ p \notin DOMAIN procs
        /\ DOMAIN t.procs = DOMAIN procs \cup {p}
        /\ \A o \in DOMAIN procs : t.procs[o] = procs[o]
        /\ t.procs[p].script = f /\ t.procs[p].page = 0 /\ t.procs[p].line = 0
    <2>. HIDE DEF t
    <2>1. \A u \in U : u[1] \in DOMAIN Now.procs
      BY <1>5, <1>6
    <2>. HIDE DEF Now
    <2>2. /\ StateOK(t, U) /\ t.queue = Append(Now.queue, Len(Now.procs) + 1)
          /\ Len(Now.procs) + 1 \in Nat \ {0} /\ Len(Now.procs) + 1 \notin DOMAIN Now.procs
          /\ DOMAIN t.procs = DOMAIN Now.procs \cup {Len(Now.procs) + 1}
          /\ \A o \in DOMAIN Now.procs : t.procs[o] = Now.procs[o]
          /\ t.procs[Len(Now.procs) + 1].script = f
          /\ t.procs[Len(Now.procs) + 1].page = 0 /\ t.procs[Len(Now.procs) + 1].line = 0
      BY <1>2, <1>4, <2>1, NewProcessOK DEF t
    <2>3. QED
      BY <1>5, <1>1, <2>2
  <1>. HIDE DEF t
  <1>8. Now' = t
    BY <1>3, <1>7, NowIs DEF StateOK
  <1>9. /\ queue \in Seq(DOMAIN procs') /\ IsInjective(queue) /\ p \in DOMAIN procs'
        /\ p \notin ToSet(queue) /\ p # running
    BY <1>2, <1>3, <1>7 DEF QueueOK, ToSet
  <1>10. /\ queue' \in Seq(DOMAIN procs') /\ IsInjective(queue')
        /\ ToSet(queue') = ToSet(queue) \cup {p}
    BY <1>3, <1>7, <1>9, AppendDistinct
  <1>11. QueueOK'
    BY <1>2, <1>3, <1>7, <1>9, <1>10 DEF QueueOK
  <1>12. ~Finished(p)' /\ \A o \in DOMAIN procs : Finished(o)' <=> Finished(o)
    BY <1>2, <1>7, <1>10 DEF Finished
  <1>13. BegunPages' = U
    <2>1. \A i \in Nat : ~Begun(p, i)'
      BY <1>3, <1>7, <1>12 DEF Begun
    <2>2. \A o \in DOMAIN procs, i \in Nat : Begun(o, i)' <=> Begun(o, i)
      BY <1>3, <1>7, <1>12 DEF Begun
    <2>3. QED
      BY <1>3, <1>7, <2>1, <2>2 DEF BegunPages, U
  <1>14. TurnOK'
    BY <1>2, <1>4 DEF TurnOK
  <1>15. RanOK'
    <2>1. /\ DOMAIN ran = DOMAIN procs /\ DOMAIN ran' = DOMAIN procs'
          /\ ran'[p] = <<>> /\ \A o \in DOMAIN procs : ran'[o] = ran[o]
      BY <1>2, <1>3, <1>7 DEF RanOK, Records
    <2>2. \A o \in DOMAIN procs : procs'[o] = procs[o]
      BY <1>3, <1>7
    <2>3. /\ ran'[p] \in Seq(LineRecord)
          /\ Len(ran'[p]) = 3 * procs'[p].page + procs'[p].line
      BY <1>3, <1>7, <2>1
    <2>4. QED
      BY <1>2, <1>3, <1>7, <1>12, <2>1, <2>2, <2>3 DEF RanOK
  <1>16. QED
    BY <1>7, <1>8, <1>11, <1>13, <1>14, <1>15 DEF SInv

LEMMA RefuseKeeps == ASSUME SInv, Refuse PROVE SInv'
  <1>1. TurnOK'
    BY DEF SInv, TurnOK, Refuse
  <1>2. QED
    BY <1>1, StillKeeps DEF Refuse

LEMMA ReturnKeeps == ASSUME SInv, Return PROVE SInv'
  <1>1. TurnOK'
    BY DEF SInv, TurnOK, Return, Kernel
  <1>2. QED
    BY <1>1, StillKeeps DEF Return

(* A step that leaves what is loaded alone.                                *)
LEMMA DispatchKeeps == ASSUME SInv, Dispatch PROVE SInv'
  <1>1. /\ StateOK(Now, BegunPages) /\ QueueOK /\ TurnOK /\ RanOK
        /\ policy # "prompt" /\ loading = <<>> /\ running = 0 /\ queue # <<>>
        /\ running' = Head(queue) /\ queue' = Tail(queue) /\ left' = Quantum
        /\ UNCHANGED <<lines, procs, lru, fate, policy, loading, ran>>
    BY DEF SInv, Dispatch, Kernel
  <1>2. /\ running' \in DOMAIN procs /\ running' \in ToSet(queue)
        /\ queue' \in Seq(DOMAIN procs) /\ IsInjective(queue')
        /\ ToSet(queue') = ToSet(queue) \ {running'}
    BY <1>1, TailDistinct DEF QueueOK
  <1>3. QueueOK'
    BY <1>1, <1>2 DEF QueueOK
  <1>4. \A p \in DOMAIN procs : Finished(p)' <=> Finished(p)
    <2>1. procs \in Seq(PcbSet)
      BY <1>1 DEF StateOK, StateSet, Now
    <2>2. 0 \notin DOMAIN procs
      BY <2>1
    <2>3. QED
      BY <1>1, <1>2, <2>2 DEF Finished
  <1>5. BegunPages' = BegunPages
    BY <1>1, <1>4 DEF BegunPages, Begun
  <1>6. queue' \in Seq(Nat)
    <2>1. DOMAIN procs \subseteq Nat
      BY <1>1 DEF StateOK, StateSet, Now
    <2>2. QED
      BY <1>2, <2>1
  <1>7. StateOK(Now', BegunPages)
    <2>1. Now' \in StateSet
      <3>1. /\ lines \in [Frames -> LineRecord] /\ procs \in Seq(PcbSet)
            /\ lru \in Seq(LRUEntry) /\ fate \in Fate
        BY <1>1 DEF StateOK, StateSet, Now
      <3>2. QED
        BY <1>1, <1>6, <3>1 DEF StateSet, Now
    <2>2. /\ Now'.lines = Now.lines /\ Now'.procs = Now.procs /\ Now'.lru = Now.lru
          /\ Now'.fate = Now.fate
      BY <1>1 DEF Now
    <2>3. Now.fate = "undefined" => \E p \in DOMAIN Now.procs : ShortPage(Now.procs[p])
      BY <1>1 DEF StateOK
    <2>4. QED
      BY <1>1, <2>1, <2>2, <2>3, StateWeaken
  <1>8. TurnOK'
    BY <1>1 DEF TurnOK, Quantum
  <1>9. RanOK'
    BY <1>1, <1>4 DEF RanOK
  <1>10. QED
    BY <1>3, <1>5, <1>7, <1>8, <1>9 DEF SInv

(* Back into the queue, at its end for RR and at its head for FCFS.        *)
LEMMA RequeuedIs ==
  ASSUME NEW s \in StateSet, NEW S \in SUBSET Nat, s.queue \in Seq(S), IsInjective(s.queue),
         NEW x \in S, x \notin ToSet(s.queue)
  PROVE  LET t == Requeued(s, x)
         IN /\ t \in StateSet /\ t.queue \in Seq(S) /\ IsInjective(t.queue)
            /\ ToSet(t.queue) = ToSet(s.queue) \cup {x}
            /\ t.lines = s.lines /\ t.procs = s.procs /\ t.lru = s.lru /\ t.fate = s.fate
  <1>. DEFINE r == IF policy = "RR" THEN Append(s.queue, x) ELSE <<x>> \o s.queue
              t == Requeued(s, x)
  <1>1. t = [s EXCEPT !.queue = r]
    BY DEF Requeued
  <1>2. r \in Seq(S) /\ IsInjective(r) /\ ToSet(r) = ToSet(s.queue) \cup {x}
    <2>1. /\ Append(s.queue, x) \in Seq(S) /\ IsInjective(Append(s.queue, x))
          /\ ToSet(Append(s.queue, x)) = ToSet(s.queue) \cup {x}
      BY AppendDistinct
    <2>2. /\ <<x>> \o s.queue \in Seq(S) /\ IsInjective(<<x>> \o s.queue)
          /\ ToSet(<<x>> \o s.queue) = ToSet(s.queue) \cup {x}
      BY PrependDistinct
    <2>3. CASE policy = "RR"
      BY <2>1, <2>3
    <2>4. CASE policy # "RR"
      BY <2>2, <2>4
    <2>5. QED
      BY <2>3, <2>4
  <1>. HIDE DEF r, t
  <1>3. r \in Seq(Nat)
    <2>1. S \subseteq Nat /\ r \in Seq(S)
      BY <1>2
    <2>2. QED
      BY <2>1, SeqMonotonic
  <1>4. /\ t \in StateSet /\ t.queue = r
        /\ t.lines = s.lines /\ t.procs = s.procs /\ t.lru = s.lru /\ t.fate = s.fate
    BY <1>1, <1>3 DEF StateSet
  <1>5. QED
    BY <1>2, <1>4 DEF t

(* The processes are where they were.                                      *)
LEMMA PlaceKept ==
  ASSUME DOMAIN procs' = DOMAIN procs,
         \A o \in DOMAIN procs : /\ procs'[o].script = procs[o].script
                                 /\ procs'[o].page = procs[o].page
                                 /\ procs'[o].line = procs[o].line
                                 /\ Finished(o)' <=> Finished(o)
  PROVE  BegunPages' = BegunPages /\ (RanOK /\ ran' = ran => RanOK')
  <1>1. \A o \in DOMAIN procs, i \in Nat : Begun(o, i)' <=> Begun(o, i)
    BY DEF Begun
  <1>2. BegunPages' = BegunPages
    BY <1>1 DEF BegunPages
  <1>3. RanOK /\ ran' = ran => RanOK'
    BY DEF RanOK
  <1>4. QED
    BY <1>2, <1>3

(* A process asks for a page that is not loaded when all its loaded pages  *)
(* have been begun, and not after its last page.                           *)
LEMMA AtEndOfLoaded ==
  ASSUME NEW q \in PcbSet, PcbOK(q), q.table[q.page] = NoPage
  PROVE  q.loaded < LineCount(q.script) /\ q.loaded \div 3 = q.page
  <1>. DEFINE count == LineCount(q.script)
  <1>1. /\ q.page \in Nat /\ q.line \in 0 .. 2 /\ q.loaded \in Nat /\ q.script \in Name
        /\ count \in Nat
    BY LineCountType DEF PcbSet, Offset
  <1>2. /\ 3 * q.page + q.line < count /\ 3 * q.page <= q.loaded
        /\ DOMAIN q.table = 0 .. count \div 3 /\ q.loaded <= count
        /\ \A i \in DOMAIN q.table : q.table[i] # NoPage <=> 3 * i < q.loaded
    BY DEF PcbOK
  <1>3. count \div 3 \in Nat /\ count < 3 * (count \div 3) + 3
    BY <1>1, Div3
  <1>. HIDE DEF count
  <1>4. q.page \in DOMAIN q.table
    BY <1>1, <1>2, <1>3
  <1>5. ~(3 * q.page < q.loaded)
    BY <1>2, <1>4
  <1>6. q.loaded = 3 * q.page
    BY <1>1, <1>2, <1>5
  <1>7. q.loaded < count
    BY <1>1, <1>2, <1>6
  <1>8. q.loaded \div 3 = q.page
    BY <1>1, <1>6
  <1>9. QED
    BY <1>7, <1>8 DEF count

LEMMA PageFaultKeeps == ASSUME SInv, PageFault PROVE SInv'
  <1>1. PICK r : r = running
    OBVIOUS
  <1>. DEFINE initial == FALSE
              n == Loaded(Now, r, initial)
              t == Requeued(n, r)
              U == BegunPages
  <1>2. /\ StateOK(Now, U) /\ QueueOK /\ TurnOK /\ RanOK
        /\ r # 0 /\ procs[r].table[procs[r].page] = NoPage /\ running' = 0
        /\ UNCHANGED <<policy, loading, left, ran>>
    BY <1>1 DEF SInv, PageFault, CurrentPage
  <1>3. /\ t.lines = lines' /\ t.procs = procs' /\ t.queue = queue'
        /\ t.lru = lru' /\ t.fate = fate'
    BY <1>1 DEF PageFault, Becomes, NextPage
  <1>4. Now.procs = procs /\ Now.queue = queue
    BY DEF Now
  <1>5. r \in DOMAIN procs /\ r \notin ToSet(queue) /\ queue \in Seq(DOMAIN procs)
        /\ IsInjective(queue) /\ initial \in BOOLEAN /\ ~initial
    BY <1>1, <1>2 DEF QueueOK
  <1>. HIDE DEF initial, U
  <1>6. procs[r] \in PcbSet /\ PcbOK(procs[r])
    BY <1>2, <1>4, <1>5, PcbIs
  <1>7. procs[r].loaded < LineCount(procs[r].script) /\ procs[r].loaded \div 3 = procs[r].page
    BY <1>2, <1>6, AtEndOfLoaded
  <1>8. \A i \in procs[r].page .. procs[r].loaded \div 3 - 1 : <<r, i>> \notin U
    <2>1. procs[r].page \in Nat
      BY <1>6 DEF PcbSet
    <2>2. procs[r].page .. procs[r].page - 1 = {}
      BY <2>1
    <2>3. QED
      BY <1>7, <2>2
  <1>9. /\ StateOK(n, U) /\ n.queue = queue /\ DOMAIN n.procs = DOMAIN procs
        /\ \A o \in DOMAIN procs \ {r} : n.procs[o] = procs[o]
        /\ n.procs[r].script = procs[r].script
        /\ n.procs[r].page = procs[r].page /\ n.procs[r].line = procs[r].line
    <2>. HIDE DEF Now, n
    <2>1. /\ r \in DOMAIN Now.procs /\ Now.procs[r].loaded < LineCount(Now.procs[r].script)
          /\ \A i \in Now.procs[r].page .. Now.procs[r].loaded \div 3 - 1 : <<r, i>> \notin U
      BY <1>4, <1>5, <1>7, <1>8
    <2>2. /\ StateOK(n, U) /\ n.queue = Now.queue /\ DOMAIN n.procs = DOMAIN Now.procs
          /\ \A o \in DOMAIN Now.procs \ {r} : n.procs[o] = Now.procs[o]
          /\ n.procs[r].script = Now.procs[r].script
          /\ n.procs[r].page = Now.procs[r].page /\ n.procs[r].line = Now.procs[r].line
      BY <1>2, <1>5, <2>1, LoadedKeeps DEF n
    <2>3. QED
      BY <1>4, <2>2
  <1>. HIDE DEF n
  <1>10. n \in StateSet /\ DOMAIN procs \in SUBSET Nat
    <2>1. n \in StateSet /\ procs \in Seq(PcbSet)
      BY <1>2, <1>4, <1>9 DEF StateOK, StateSet
    <2>2. QED
      BY <2>1
  <1>11. /\ t \in StateSet /\ t.queue \in Seq(DOMAIN procs) /\ IsInjective(t.queue)
         /\ ToSet(t.queue) = ToSet(queue) \cup {r}
         /\ t.lines = n.lines /\ t.procs = n.procs /\ t.lru = n.lru /\ t.fate = n.fate
    BY <1>5, <1>9, <1>10, RequeuedIs, ZenonT(60)
  <1>. HIDE DEF t
  <1>12. Now' = t
    BY <1>3, <1>11, NowIs
  <1>13. StateOK(t, U)
    <2>1. n.fate = "undefined" => \E o \in DOMAIN n.procs : ShortPage(n.procs[o])
      BY <1>9 DEF StateOK
    <2>2. QED
      BY <1>9, <1>11, <2>1, StateWeaken
  <1>14. 0 \notin DOMAIN procs
    BY <1>2, <1>4, PcbIs
  <1>15. QueueOK'
    <2>1. 0 \notin ToSet(queue')
      BY <1>3, <1>5, <1>11, <1>14 DEF ToSet
    <2>2. QED
      BY <1>2, <1>3, <1>9, <1>11, <2>1 DEF QueueOK
  <1>16. TurnOK'
    BY <1>2 DEF TurnOK
  <1>17. \A o \in DOMAIN procs : Finished(o)' <=> Finished(o)
    BY <1>1, <1>2, <1>3, <1>11, <1>14 DEF Finished
  <1>18. \A o \in DOMAIN procs : /\ procs'[o].script = procs[o].script
                                 /\ procs'[o].page = procs[o].page
                                 /\ procs'[o].line = procs[o].line
    BY <1>3, <1>9, <1>11
  <1>19. BegunPages' = U /\ RanOK'
    BY <1>2, <1>3, <1>9, <1>11, <1>17, <1>18, PlaceKept DEF U
  <1>20. QED
    BY <1>12, <1>13, <1>15, <1>16, <1>19 DEF SInv

-----------------------------------------------------------------------------
(* A line is run.  Its index is the one of the end exactly when it is the  *)
(* last line of the script, and updatePC goes one place on otherwise.      *)
LEMMA PlaceOK ==
  ASSUME NEW q \in PcbSet, PcbOK(q), NEW t \in PcbSet,
         t.script = q.script, t.loaded = q.loaded, t.table = q.table,
         t.last = q.last, t.lastPage = q.lastPage, q.page <= t.page,
         3 * t.page + t.line < LineCount(q.script), 3 * t.page <= q.loaded
  PROVE  PcbOK(t)
  <1>1. \A i \in DOMAIN q.table : PageOK(q, i) => PageOK(t, i)
    BY DEF PageOK, ShortPage
  <1>2. q.page \in Nat /\ t.page \in Nat /\ q.lastPage \in Nat \cup {-1}
    BY DEF PcbSet
  <1>3. t.page .. q.lastPage - 1 \subseteq q.page .. q.lastPage - 1
    BY <1>2
  <1>4. QED
    BY <1>1, <1>3 DEF PcbOK

LEMMA CurrentIs ==
  ASSUME NEW q \in PcbSet, PcbOK(q), q.table[q.page] # NoPage
  PROVE  LET count == LineCount(q.script)
             x == q.table[q.page][q.line]
         IN /\ x \in Frames /\ q.page \in DOMAIN q.table
            /\ x = q.last <=> 3 * q.page + q.line = count - 1
            /\ x # q.last /\ q.line = 2 =>
                 /\ 3 * (q.page + 1) <= q.loaded
                 /\ q.lastPage = -1 \/ q.page < q.lastPage
  <1>. DEFINE count == LineCount(q.script)
              x == q.table[q.page][q.line]
              page == q.page
              line == q.line
              loaded == q.loaded
              end == (count - 1) \div 3
  <1>1. /\ page \in Nat /\ line \in 0 .. 2 /\ loaded \in Nat /\ q.script \in Name
        /\ count \in Nat \ {0} /\ line \in Offset
    BY LineCountType DEF PcbSet, Offset
  <1>2. /\ 3 * page + line < count /\ 3 * page <= loaded
        /\ DOMAIN q.table = 0 .. count \div 3 /\ loaded <= count
        /\ loaded = count \/ loaded % 3 = 0
        /\ \A i \in DOMAIN q.table : q.table[i] # NoPage <=> 3 * i < loaded
        /\ \A i \in DOMAIN q.table : q.table[i] # NoPage => PageOK(q, i)
        /\ loaded < count => q.last = NoIndex /\ q.lastPage = -1
        /\ loaded = count => q.lastPage = end
        /\ loaded = count => q.last = q.table[end][(count - 1) % 3]
        /\ loaded = count =>
             \A i \in page .. end - 1 : \A j \in Offset : q.table[i][j] # q.last
    BY DEF PcbOK
  <1>3. count \div 3 \in Nat /\ count < 3 * (count \div 3) + 3
    BY <1>1, Div3
  <1>4. /\ end \in Nat /\ 3 * end <= count - 1 /\ count - 1 < 3 * end + 3
        /\ (count - 1) % 3 = count - 1 - 3 * end
    <2>1. count - 1 \in Nat
      BY <1>1
    <2>2. QED
      BY <2>1, Div3
  <1>. HIDE DEF count, end
  <1>5. page \in DOMAIN q.table
    BY <1>1, <1>2, <1>3
  <1>6. 3 * page < loaded /\ PageOK(q, page)
    BY <1>2, <1>5
  <1>7. x \in Frames /\ x # NoIndex
    <2>1. x \in Frames
      BY <1>1, <1>2, <1>6 DEF PageOK, count
    <2>2. QED
      BY <2>1 DEF Frames, NoIndex
  <1>8. CASE loaded < count
    <2>1. q.last = NoIndex /\ q.lastPage = -1
      BY <1>2, <1>8
    <2>2. 3 * page + 3 <= loaded
      <3>1. loaded % 3 = 0
        BY <1>1, <1>2, <1>8
      <3>2. loaded = 3 * (loaded \div 3) /\ loaded \div 3 \in Nat
        BY <1>1, <3>1, Div3
      <3>3. QED
        BY <1>1, <1>6, <3>2
    <2>3. 3 * page + line # count - 1
      BY <1>1, <1>8, <2>2
    <2>4. QED
      BY <1>1, <1>5, <1>7, <2>1, <2>2, <2>3 DEF count
  <1>9. CASE loaded = count /\ page < end
    <2>1. q.lastPage = end
      BY <1>2, <1>9
    <2>2. x # q.last
      <3>1. page \in page .. end - 1
        BY <1>1, <1>4, <1>9
      <3>2. QED
        BY <1>1, <1>2, <1>9, <3>1
    <2>3. 3 * page + line # count - 1 /\ 3 * (page + 1) <= loaded
      BY <1>1, <1>4, <1>9
    <2>4. QED
      BY <1>5, <1>7, <1>9, <2>1, <2>2, <2>3 DEF count
  <1>10. CASE loaded = count /\ ~(page < end)
    <2>1. page = end
      BY <1>1, <1>2, <1>4, <1>10
    <2>. DEFINE m == (count - 1) % 3
    <2>2. m \in Offset /\ m = count - 1 - 3 * page
      BY <1>1, <1>4, <2>1 DEF Offset
    <2>3. q.last = q.table[page][m]
      BY <1>2, <1>10, <2>1
    <2>. HIDE DEF m
    <2>4. x = q.last <=> line = m
      BY <1>1, <1>6, <1>7, <2>2, <2>3 DEF PageOK
    <2>5. line = m <=> 3 * page + line = count - 1
      BY <1>1, <2>2
    <2>6. line = 2 => line = m
      BY <1>1, <1>2, <1>4, <2>1, <2>2
    <2>7. QED
      BY <1>5, <1>7, <2>4, <2>5, <2>6 DEF count
  <1>11. QED
    BY <1>1, <1>2, <1>8, <1>9, <1>10

LEMMA AdvancedIs ==
  ASSUME NEW q \in PcbSet, PcbOK(q), q.table[q.page] # NoPage,
         q.table[q.page][q.line] # q.last
  PROVE  LET t == Advanced(q)
         IN /\ t \in PcbSet /\ PcbOK(t) /\ t.script = q.script /\ t.table = q.table
            /\ t.loaded = q.loaded /\ t.last = q.last
            /\ 3 * t.page + t.line = 3 * q.page + q.line + 1
            /\ t.page > q.page \/ (t.page = q.page /\ t.line > 0)
  <1>. DEFINE count == LineCount(q.script)
              t == Advanced(q)
  <1>1. /\ q.page \in Nat /\ q.line \in 0 .. 2 /\ q.script \in Name /\ count \in Nat \ {0}
        /\ q.loaded \in Nat
    BY LineCountType DEF PcbSet, Offset
  <1>2. /\ 3 * q.page + q.line # count - 1
        /\ q.line = 2 => /\ 3 * (q.page + 1) <= q.loaded
                         /\ q.lastPage = -1 \/ q.page < q.lastPage
    BY CurrentIs
  <1>3. 3 * q.page + q.line < count /\ 3 * q.page <= q.loaded
    BY DEF PcbOK
  <1>. HIDE DEF count
  <1>4. 3 * q.page + q.line + 1 < count
    BY <1>1, <1>2, <1>3
  <1>5. CASE q.line < 2
    <2>1. t = [q EXCEPT !.line = q.line + 1] /\ q.line + 1 \in Offset
      BY <1>1, <1>5 DEF Advanced, Offset
    <2>. HIDE DEF t
    <2>2. /\ t \in PcbSet /\ t.script = q.script /\ t.table = q.table
          /\ t.loaded = q.loaded /\ t.last = q.last /\ t.lastPage = q.lastPage
          /\ t.page = q.page /\ t.line = q.line + 1
      BY <2>1 DEF PcbSet
    <2>3. q.page <= t.page /\ 3 * t.page + t.line < count /\ 3 * t.page <= q.loaded
      BY <1>1, <1>3, <1>4, <2>2
    <2>4. PcbOK(t)
      BY <2>2, <2>3, PlaceOK DEF count
    <2>5. t.page = q.page /\ t.line > 0 /\ 3 * t.page + t.line = 3 * q.page + q.line + 1
      BY <1>1, <2>2
    <2>6. QED
      BY <2>2, <2>4, <2>5 DEF t
  <1>6. CASE ~(q.line < 2)
    <2>1. q.line = 2
      BY <1>1, <1>6
    <2>2. t = [q EXCEPT !.page = q.page + 1, !.line = 0] /\ 0 \in Offset /\ q.page + 1 \in Nat
      BY <1>1, <1>2, <1>6, <2>1 DEF Advanced, Offset
    <2>. HIDE DEF t
    <2>3. /\ t \in PcbSet /\ t.script = q.script /\ t.table = q.table
          /\ t.loaded = q.loaded /\ t.last = q.last /\ t.lastPage = q.lastPage
          /\ t.page = q.page + 1 /\ t.line = 0
      BY <2>2 DEF PcbSet
    <2>4. q.page <= t.page /\ 3 * t.page + t.line < count /\ 3 * t.page <= q.loaded
      BY <1>1, <1>2, <1>4, <2>1, <2>3
    <2>5. PcbOK(t)
      BY <2>3, <2>4, PlaceOK DEF count
    <2>6. t.page > q.page /\ 3 * t.page + t.line = 3 * q.page + q.line + 1
      BY <1>1, <2>1, <2>3
    <2>7. QED
      BY <2>3, <2>5, <2>6 DEF t
  <1>7. QED
    BY <1>5, <1>6

(* The page that is begun with its first line goes into the LRU queue.     *)
LEMMA StartedOK ==
  ASSUME NEW U, NEW s, StateOK(s, U), s.procs = procs, NEW r \in DOMAIN procs,
         procs[r].page \in DOMAIN procs[r].table,
         procs[r].table[procs[r].page] # NoPage,
         procs[r].line = 0 <=> <<r, procs[r].page>> \notin U
  PROVE  LET t == Started(s, r)
         IN /\ StateOK(t, U \cup {<<r, procs[r].page>>}) /\ t.procs = s.procs
            /\ t.queue = s.queue /\ t.fate = s.fate /\ t.lines = s.lines
  <1>. DEFINE q == procs[r]
              e == Entry(r, q.page)
              W == U \cup {<<r, q.page>>}
              t == Started(s, r)
  <1>1. s \in StateSet /\ s.lru \in Seq(LRUEntry) /\ IsInjective(s.lru)
    BY DEF StateOK, StateSet
  <1>2. CASE q.line # 0
    <2>1. t = s /\ W = U
      BY <1>2 DEF Started
    <2>2. QED
      BY <2>1
  <1>3. CASE q.line = 0
    <2>1. t = [s EXCEPT !.lru = Append(s.lru, e)]
      BY <1>3 DEF Started, Entry
    <2>2. r \in Nat /\ q \in PcbSet
      BY PcbIs
    <2>3. e \in LRUEntry /\ e.pid = r /\ e.page = q.page
      BY <2>2 DEF Entry, LRUEntry, PcbSet
    <2>4. e \notin ToSet(s.lru)
      BY <1>3, <2>3 DEF StateOK
    <2>. DEFINE new == Append(s.lru, e)
    <2>5. new \in Seq(LRUEntry) /\ IsInjective(new) /\ ToSet(new) = ToSet(s.lru) \cup {e}
      BY <1>1, <2>3, <2>4, AppendDistinct
    <2>. HIDE DEF new, t, e
    <2>6. /\ t \in StateSet /\ t.lru = new /\ t.lines = s.lines /\ t.procs = s.procs
          /\ t.queue = s.queue /\ t.fate = s.fate
      BY <1>1, <2>1, <2>5 DEF StateSet, new
    <2>7. ASSUME NEW o \in DOMAIN procs, NEW i \in DOMAIN procs[o].table,
                 procs[o].table[i] # NoPage, LiveIn(t, W, o, i)
          PROVE  Holds(t, o, i)
      <3>1. LiveIn(s, U, o, i)
        <4>1. CASE <<o, i>> = <<r, q.page>>
          BY <1>3, <4>1 DEF LiveIn
        <4>2. CASE <<o, i>> # <<r, q.page>>
          <5>1. Entry(o, i) # e
            BY <4>2 DEF Entry, e
          <5>2. QED
            BY <2>5, <2>6, <2>7, <4>2, <5>1 DEF LiveIn
        <4>3. QED
          BY <4>1, <4>2
      <3>2. Holds(s, o, i)
        BY <2>7, <3>1 DEF StateOK
      <3>3. QED
        BY <2>6, <3>2 DEF Holds
    <2>8. ASSUME NEW x \in ToSet(t.lru)
          PROVE  /\ x.pid \in DOMAIN procs /\ x.page \in DOMAIN procs[x.pid].table
                 /\ procs[x.pid].table[x.page] # NoPage /\ <<x.pid, x.page>> \in W
      <3>1. CASE x = e
        BY <2>3, <3>1
      <3>2. CASE x # e
        <4>1. x \in ToSet(s.lru)
          BY <2>5, <2>6, <2>8, <3>2
        <4>2. QED
          BY <4>1 DEF StateOK
      <3>3. QED
        BY <3>1, <3>2
    <2>9. /\ \A o \in DOMAIN procs : PcbOK(procs[o])
          /\ s.fate = "undefined" => \E o \in DOMAIN procs : ShortPage(procs[o])
      BY DEF StateOK
    <2>. HIDE DEF W
    <2>10. StateOK(t, W)
      BY <2>5, <2>6, <2>7, <2>8, <2>9 DEF StateOK
    <2>11. QED
      BY <2>6, <2>10 DEF t, W
  <1>4. QED
    BY <1>2, <1>3

(* A process goes on to another place.                                     *)
LEMMA MovedOK ==
  ASSUME NEW U, NEW s, StateOK(s, U), NEW r \in DOMAIN s.procs,
         NEW q \in PcbSet, PcbOK(q), q.script = s.procs[r].script, q.table = s.procs[r].table
  PROVE  LET t == [s EXCEPT !.procs[r] = q]
         IN /\ StateOK(t, U) /\ t.queue = s.queue /\ t.fate = s.fate
            /\ t.lines = s.lines /\ t.lru = s.lru
            /\ DOMAIN t.procs = DOMAIN s.procs /\ t.procs[r] = q
            /\ \A o \in DOMAIN s.procs \ {r} : t.procs[o] = s.procs[o]
  <1>. DEFINE new == [s.procs EXCEPT ![r] = q]
              t == [s EXCEPT !.procs[r] = q]
  <1>1. /\ s.lines \in [Frames -> LineRecord] /\ s.procs \in Seq(PcbSet)
        /\ s.queue \in Seq(Nat) /\ s.lru \in Seq(LRUEntry) /\ s.fate \in Fate /\ s \in StateSet
    BY DEF StateOK, StateSet
  <1>2. /\ new \in Seq(PcbSet) /\ DOMAIN new = DOMAIN s.procs /\ new[r] = q
        /\ \A o \in DOMAIN s.procs \ {r} : new[o] = s.procs[o]
    BY <1>1
  <1>3. t = [s EXCEPT !.procs = new]
    BY <1>1 DEF StateSet
  <1>. HIDE DEF new, t
  <1>4. /\ t \in StateSet /\ t.procs = new /\ t.lines = s.lines /\ t.lru = s.lru
        /\ t.queue = s.queue /\ t.fate = s.fate
    BY <1>1, <1>2, <1>3 DEF StateSet
  <1>5. \A o \in DOMAIN s.procs : /\ PcbOK(t.procs[o])
                                  /\ t.procs[o].script = s.procs[o].script
                                  /\ t.procs[o].table = s.procs[o].table
    BY <1>2, <1>4 DEF StateOK
  <1>6. ASSUME NEW o \in DOMAIN s.procs, NEW i \in DOMAIN s.procs[o].table,
               s.procs[o].table[i] # NoPage, LiveIn(t, U, o, i)
        PROVE  Holds(t, o, i)
    <2>1. LiveIn(s, U, o, i)
      BY <1>4, <1>6 DEF LiveIn
    <2>2. Holds(s, o, i)
      BY <1>6, <2>1 DEF StateOK
    <2>3. QED
      BY <1>4, <1>5, <2>2 DEF Holds
  <1>7. \A o \in DOMAIN s.procs : ShortPage(s.procs[o]) => ShortPage(t.procs[o])
    BY <1>5 DEF ShortPage
  <1>8. StateOK(t, U)
    <2>1. DOMAIN t.procs = DOMAIN s.procs
      BY <1>2, <1>4
    <2>2. \A o \in DOMAIN t.procs : PcbOK(t.procs[o])
      BY <1>5, <2>1, Zenon
    <2>3. \A o \in DOMAIN t.procs : \A i \in DOMAIN t.procs[o].table :
            t.procs[o].table[i] # NoPage /\ LiveIn(t, U, o, i) => Holds(t, o, i)
      BY <1>5, <1>6, <2>1, Zenon
    <2>4. IsInjective(t.lru)
      BY <1>4, Zenon DEF StateOK
    <2>5. ASSUME NEW e \in ToSet(t.lru)
          PROVE  /\ e.pid \in DOMAIN t.procs /\ e.page \in DOMAIN t.procs[e.pid].table
                 /\ t.procs[e.pid].table[e.page] # NoPage /\ <<e.pid, e.page>> \in U
      <3>1. /\ e.pid \in DOMAIN s.procs /\ e.page \in DOMAIN s.procs[e.pid].table
            /\ s.procs[e.pid].table[e.page] # NoPage /\ <<e.pid, e.page>> \in U
        BY <1>4, <2>5, Zenon DEF StateOK
      <3>2. t.procs[e.pid].table = s.procs[e.pid].table
        BY <1>5, <3>1, Zenon
      <3>3. QED
        BY <2>1, <3>1, <3>2, Zenon
    <2>6. t.fate = "undefined" => \E o \in DOMAIN t.procs : ShortPage(t.procs[o])
      BY <1>4, <1>7, <2>1, Zenon DEF StateOK
    <2>7. QED
      BY <1>4, <2>2, <2>3, <2>4, <2>5, <2>6, Zenon DEF StateOK
  <1>9. QED
    BY <1>2, <1>4, <1>8 DEF t

(* What a command does: a process more, or the end, or nothing.            *)
Added(s, c) == IF c \in Name THEN {Len(s.procs) + 1} ELSE {}

LEMMA InterpretedOK ==
  ASSUME NEW U, NEW s, StateOK(s, U), \A u \in U : u[1] \in DOMAIN s.procs, NEW c,
         s.queue \in Seq(DOMAIN s.procs), IsInjective(s.queue)
  PROVE  LET t == Interpreted(s, c)
             new == Added(s, c)
         IN /\ StateOK(t, U) /\ new \cap DOMAIN s.procs = {}
            /\ DOMAIN t.procs = DOMAIN s.procs \cup new
            /\ \A o \in DOMAIN s.procs : t.procs[o] = s.procs[o]
            /\ \A o \in new : o \in Nat \ {0} /\ t.procs[o].page = 0 /\ t.procs[o].line = 0
            /\ t.queue \in Seq(DOMAIN t.procs) /\ IsInjective(t.queue)
            /\ ToSet(t.queue) = ToSet(s.queue) \cup new
  <1>. DEFINE t == Interpreted(s, c)
              new == Added(s, c)
              p == Len(s.procs) + 1
  <1>1. CASE c \in Name
    <2>1. t = NewProcess(s, c) /\ new = {p}
      BY <1>1 DEF Interpreted, Added
    <2>2. /\ StateOK(t, U) /\ t.queue = Append(s.queue, p)
          /\ p \in Nat \ {0} /\ p \notin DOMAIN s.procs
          /\ DOMAIN t.procs = DOMAIN s.procs \cup {p}
          /\ \A o \in DOMAIN s.procs : t.procs[o] = s.procs[o]
          /\ t.procs[p].page = 0 /\ t.procs[p].line = 0
      BY <1>1, <2>1, NewProcessOK
    <2>. HIDE DEF t, new, p
    <2>3. p \notin ToSet(s.queue)
      BY <2>2 DEF ToSet
    <2>4. s.queue \in Seq(DOMAIN t.procs) /\ p \in DOMAIN t.procs
      <3>1. DOMAIN s.procs \subseteq DOMAIN t.procs
        BY <2>2
      <3>2. QED
        BY <2>2, <3>1, SeqMonotonic
    <2>5. /\ t.queue \in Seq(DOMAIN t.procs) /\ IsInjective(t.queue)
          /\ ToSet(t.queue) = ToSet(s.queue) \cup {p}
      BY <2>2, <2>3, <2>4, AppendDistinct
    <2>6. QED
      BY <2>1, <2>2, <2>5 DEF t, new
  <1>2. CASE c \notin Name
    <2>1. new = {} /\ t = IF c = "quit" THEN [s EXCEPT !.fate = "ended"] ELSE s
      BY <1>2 DEF Interpreted, Added
    <2>. HIDE DEF t, new
    <2>2. CASE c = "quit"
      <3>1. t = [s EXCEPT !.fate = "ended"] /\ s \in StateSet /\ "ended" \in Fate
        BY <2>1, <2>2 DEF StateOK, Fate
      <3>2. /\ t \in StateSet /\ t.lines = s.lines /\ t.procs = s.procs
            /\ t.lru = s.lru /\ t.queue = s.queue /\ t.fate = "ended"
        BY <3>1, FateUpdate
      <3>3. StateOK(t, U)
        BY <3>2, StateWeaken
      <3>4. QED
        BY <2>1, <3>2, <3>3 DEF t, new
    <2>3. CASE c # "quit"
      BY <2>1, <2>3 DEF t, new
    <2>4. QED
      BY <2>2, <2>3
  <1>3. QED
    BY <1>1, <1>2

LEMMA RunLineKeeps == ASSUME SInv, RunLine PROVE SInv'
  <1>1. PICK r : r = running
    OBVIOUS
  <1>. DEFINE q == procs[r]
              x == q.table[q.page][q.line]
              U == BegunPages
              W == U \cup {<<r, q.page>>}
              one == Started(Now, r)
              c == Command(x)
              after == Interpreted(one, c)
              N == Added(one, c)
              moved == [after EXCEPT !.procs[r] = Advanced(@)]
              over == x = q.last
              turn == policy = "RR" /\ left = 1
              t == IF over THEN after ELSE IF turn THEN Requeued(moved, r) ELSE moved
              count == LineCount(q.script)
  <1>2. /\ StateOK(Now, U) /\ QueueOK /\ TurnOK /\ RanOK
        /\ policy # "prompt" /\ loading = <<>> /\ r # 0 /\ q.table[q.page] # NoPage
        /\ running' = IF over \/ turn THEN 0 ELSE r
        /\ left' = IF policy = "RR" THEN left - 1 ELSE left
        /\ ran' = [Records EXCEPT ![r] = IF Len(@) > count THEN @ ELSE Append(@, lines[x])]
        /\ UNCHANGED <<policy, loading>>
    BY <1>1 DEF SInv, RunLine, Kernel, CurrentPage, CurrentIndex
  <1>3. /\ t.lines = lines' /\ t.procs = procs' /\ t.queue = queue'
        /\ t.lru = lru' /\ t.fate = fate'
    BY <1>1 DEF RunLine, Becomes, CurrentPage, CurrentIndex
  <1>4. Now.procs = procs /\ Now.queue = queue /\ Now.lines = lines
    BY DEF Now
  <1>5. /\ r \in DOMAIN procs /\ r \notin ToSet(queue) /\ queue \in Seq(DOMAIN procs)
        /\ IsInjective(queue)
    BY <1>1, <1>2 DEF QueueOK
  <1>6. /\ q \in PcbSet /\ PcbOK(q) /\ r \in Nat \ {0}
        /\ \A o \in DOMAIN procs : o \in Nat \ {0}
    BY <1>2, <1>4, <1>5, PcbIs
  <1>7. /\ x \in Frames /\ q.page \in DOMAIN q.table
        /\ over <=> 3 * q.page + q.line = count - 1
    BY <1>2, <1>6, CurrentIs
  <1>8. /\ q.page \in Nat /\ q.line \in 0 .. 2 /\ count \in Nat \ {0}
        /\ 3 * q.page + q.line < count
    BY <1>6, LineCountType DEF PcbSet, PcbOK, Offset
  <1>9. ~Finished(r)
    BY <1>1 DEF Finished
  <1>10. q.line = 0 <=> <<r, q.page>> \notin U
    BY <1>5, <1>6, <1>8, <1>9, BegunAre DEF Begun
  <1>11. lines \in [Frames -> LineRecord]
    BY <1>2, <1>4 DEF StateOK, StateSet
  <1>. HIDE DEF Now, U, c, x, count
  <1>12. /\ StateOK(one, W) /\ one.procs = procs /\ one.queue = queue
    <2>1. PICK now : now = Now
      OBVIOUS
    <2>2. StateOK(now, U) /\ now.procs = procs /\ now.queue = queue
      BY <1>2, <1>4, <2>1, Zenon
    <2>3. procs[r].page \in DOMAIN procs[r].table /\ procs[r].table[procs[r].page] # NoPage
      BY <1>2, <1>7, Zenon
    <2>4. procs[r].line = 0 <=> <<r, procs[r].page>> \notin U
      BY <1>10, Zenon
    <2>5. /\ StateOK(now, U) /\ now.procs = procs /\ r \in DOMAIN procs
          /\ procs[r].page \in DOMAIN procs[r].table
          /\ procs[r].table[procs[r].page] # NoPage
          => /\ StateOK(Started(now, r), U \cup {<<r, procs[r].page>>})
             /\ Started(now, r).procs = now.procs /\ Started(now, r).queue = now.queue
      BY <2>4, StartedOK
    <2>6. /\ StateOK(Started(now, r), U \cup {<<r, procs[r].page>>})
          /\ Started(now, r).procs = now.procs /\ Started(now, r).queue = now.queue
      BY <1>5, <2>2, <2>3, <2>5
    <2>7. Started(now, r) = one /\ U \cup {<<r, procs[r].page>>} = W
      BY <2>1, Zenon
    <2>8. QED
      BY <2>2, <2>6, <2>7, Zenon
  <1>13. \A u \in W : u[1] \in DOMAIN procs
    BY <1>5 DEF BegunPages, U
  <1>. HIDE DEF one, W
  <1>14. /\ StateOK(after, W) /\ N \cap DOMAIN procs = {}
         /\ DOMAIN after.procs = DOMAIN procs \cup N
         /\ \A o \in DOMAIN procs : after.procs[o] = procs[o]
         /\ \A o \in N : o \in Nat \ {0} /\ after.procs[o].page = 0 /\ after.procs[o].line = 0
         /\ after.queue \in Seq(DOMAIN after.procs) /\ IsInjective(after.queue)
         /\ ToSet(after.queue) = ToSet(queue) \cup N
    BY <1>5, <1>12, <1>13, InterpretedOK
  <1>. HIDE DEF after, N
  <1>15. r \in DOMAIN after.procs /\ after.procs[r] = q
    BY <1>5, <1>14
  <1>16. ASSUME ~over
         PROVE  LET new == Advanced(q)
                IN /\ new \in PcbSet /\ PcbOK(new) /\ new.script = q.script
                   /\ new.table = q.table /\ 3 * new.page + new.line = 3 * q.page + q.line + 1
                   /\ new.page > q.page \/ (new.page = q.page /\ new.line > 0)
    BY <1>2, <1>6, <1>16, AdvancedIs DEF x
  <1>17. ASSUME ~over
         PROVE  /\ StateOK(moved, W) /\ moved.queue = after.queue
                /\ DOMAIN moved.procs = DOMAIN after.procs /\ moved.procs[r] = Advanced(q)
                /\ \A o \in DOMAIN after.procs \ {r} : moved.procs[o] = after.procs[o]
    <2>1. moved = [after EXCEPT !.procs[r] = Advanced(q)]
      BY <1>15
    <2>2. QED
      BY <1>14, <1>15, <1>16, <1>17, <2>1, MovedOK
  <1>. HIDE DEF moved
  <1>18. ASSUME ~over
         PROVE  LET s == Requeued(moved, r)
                IN /\ StateOK(s, W) /\ s.procs = moved.procs
                   /\ s.queue \in Seq(DOMAIN after.procs) /\ IsInjective(s.queue)
                   /\ ToSet(s.queue) = ToSet(after.queue) \cup {r}
    <2>1. moved \in StateSet
      BY <1>17, <1>18 DEF StateOK
    <2>2. DOMAIN after.procs \in SUBSET Nat
      BY <1>6, <1>14
    <2>3. /\ r \notin ToSet(moved.queue) /\ r \in DOMAIN after.procs
          /\ moved.queue \in Seq(DOMAIN after.procs) /\ IsInjective(moved.queue)
      BY <1>5, <1>14, <1>15, <1>17, <1>18
    <2>. DEFINE s == Requeued(moved, r)
    <2>4. /\ s \in StateSet /\ s.queue \in Seq(DOMAIN after.procs) /\ IsInjective(s.queue)
          /\ ToSet(s.queue) = ToSet(moved.queue) \cup {r}
          /\ s.lines = moved.lines /\ s.procs = moved.procs /\ s.lru = moved.lru
          /\ s.fate = moved.fate
      BY <2>1, <2>2, <2>3, RequeuedIs
    <2>5. s.fate = "undefined" => \E o \in DOMAIN moved.procs : ShortPage(moved.procs[o])
      BY <1>17, <1>18, <2>4 DEF StateOK
    <2>. HIDE DEF s
    <2>6. StateOK(s, W)
      BY <1>17, <1>18, <2>4, <2>5, StateWeaken
    <2>7. QED
      BY <1>17, <1>18, <2>4, <2>6 DEF s
  <1>. DEFINE back == IF ~over /\ turn THEN {r} ELSE {}
              here == IF over THEN q ELSE Advanced(q)
  <1>19. /\ StateOK(t, W) /\ DOMAIN t.procs = DOMAIN procs \cup N
         /\ t.procs[r] = here /\ \A o \in DOMAIN procs \ {r} : t.procs[o] = procs[o]
         /\ \A o \in N : t.procs[o].page = 0 /\ t.procs[o].line = 0
         /\ t.queue \in Seq(DOMAIN t.procs) /\ IsInjective(t.queue)
         /\ ToSet(t.queue) = ToSet(queue) \cup N \cup back
    <2>1. \A o \in N : o # r
      BY <1>5, <1>14
    <2>2. CASE over
      BY <1>14, <1>15, <2>1, <2>2
    <2>3. CASE ~over /\ turn
      BY <1>5, <1>14, <1>17, <1>18, <2>1, <2>3
    <2>4. CASE ~over /\ ~turn
      BY <1>5, <1>14, <1>17, <2>1, <2>4
    <2>5. QED
      BY <2>2, <2>3, <2>4
  <1>. HIDE DEF t, here, back
  <1>20. back = (IF ~over /\ turn THEN {r} ELSE {}) /\ here.script = q.script
    BY <1>16 DEF back, here
  <1>. HIDE DEF over, turn, q
  <1>21. Now' = t
    BY <1>3, <1>19, NowIs DEF StateOK
  <1>22. QueueOK'
    <2>1. /\ queue' \in Seq(DOMAIN procs') /\ IsInjective(queue')
          /\ ToSet(queue') = ToSet(queue) \cup N \cup back /\ DOMAIN procs' = DOMAIN procs \cup N
      BY <1>3, <1>19
    <2>2. running' \in {0} \cup DOMAIN procs'
      BY <1>2, <1>5, <2>1
    <2>3. 0 \notin ToSet(queue') /\ r # 0
      <3>1. \A o \in DOMAIN procs' : o # 0
        BY <1>6, <1>14, <2>1
      <3>2. \A k \in DOMAIN queue' : queue'[k] \in DOMAIN procs'
        BY <2>1
      <3>3. QED
        BY <1>6, <3>1, <3>2 DEF ToSet
    <2>4. ~over /\ ~turn => r \notin ToSet(queue')
      BY <1>5, <1>14, <1>20, <2>1
    <2>5. running' \notin ToSet(queue')
      BY <1>2, <2>3, <2>4
    <2>6. QED
      BY <2>1, <2>2, <2>5 DEF QueueOK
  <1>23. ASSUME NEW o \in DOMAIN procs'
         PROVE  Finished(o)' <=> IF o = r THEN over ELSE o \notin N /\ Finished(o)
    BY <1>1, <1>2, <1>3, <1>5, <1>6, <1>14, <1>19, <1>20 DEF Finished
  <1>24. W \subseteq BegunPages'
    <2>1. ASSUME NEW i \in Nat, i <= q.page PROVE Begun(r, i)'
      <3>1. CASE over
        <4>1. procs'[r] = q /\ Finished(r)'
          BY <1>3, <1>5, <1>19, <1>23, <3>1 DEF here
        <4>2. QED
          BY <1>8, <2>1, <4>1 DEF Begun
      <3>2. CASE ~over
        <4>1. procs'[r] = Advanced(q) /\ Advanced(q).page \in Nat
          BY <1>3, <1>16, <1>19, <3>2 DEF here, PcbSet
        <4>2. \/ Advanced(q).page > q.page
              \/ Advanced(q).page = q.page /\ Advanced(q).line > 0
          BY <1>16, <3>2
        <4>3. QED
          BY <1>8, <2>1, <4>1, <4>2 DEF Begun
      <3>3. QED
        BY <3>1, <3>2
    <2>2. r \in DOMAIN procs' /\ DOMAIN procs \subseteq DOMAIN procs'
      BY <1>3, <1>5, <1>19
    <2>3. <<r, q.page>> \in BegunPages'
      BY <1>6, <1>8, <2>1, <2>2 DEF BegunPages
    <2>4. ASSUME NEW u \in U PROVE u \in BegunPages'
      <3>1. u \in Nat \X Nat /\ u[1] \in DOMAIN procs /\ Begun(u[1], u[2])
        BY DEF U, BegunPages
      <3>2. Begun(u[1], u[2])'
        <4>1. CASE u[1] = r
          <5>1. u[2] <= q.page /\ u[2] \in Nat
            BY <1>8, <3>1, <4>1 DEF Begun, q
          <5>2. QED
            BY <2>1, <4>1, <5>1
        <4>2. CASE u[1] # r
          <5>1. /\ procs'[u[1]] = procs[u[1]] /\ u[1] \notin N
                /\ u[1] \in DOMAIN procs'
            BY <1>3, <1>14, <1>19, <2>2, <3>1, <4>2
          <5>2. Finished(u[1])' <=> Finished(u[1])
            BY <1>23, <4>2, <5>1
          <5>3. QED
            BY <3>1, <5>1, <5>2 DEF Begun
        <4>3. QED
          BY <4>1, <4>2
      <3>3. QED
        BY <2>2, <3>1, <3>2 DEF BegunPages
    <2>5. QED
      BY <2>3, <2>4 DEF W
  <1>25. StateOK(t, BegunPages')
    <2>1. t \in StateSet /\ (t.fate = "undefined" => \E o \in DOMAIN t.procs : ShortPage(t.procs[o]))
      BY <1>19 DEF StateOK
    <2>2. QED
      BY <1>19, <1>24, <2>1, StateWeaken
  <1>26. TurnOK'
    <2>1. /\ policy \in {"prompt", "FCFS", "RR"} /\ left \in 0 .. 2
          /\ policy = "RR" => left \in 1 .. 2
      BY <1>1, <1>2 DEF TurnOK, Quantum
    <2>2. left' \in 0 .. 2 /\ (policy = "RR" /\ ~turn => left' \in 1 .. 2)
      BY <1>2, <2>1 DEF turn
    <2>3. QED
      BY <1>2, <2>1, <2>2 DEF TurnOK, Quantum
  <1>27. RanOK'
    <2>1. /\ DOMAIN ran = DOMAIN procs /\ ran[r] \in Seq(LineRecord)
          /\ Len(ran[r]) = 3 * q.page + q.line
      BY <1>2, <1>5, <1>9 DEF RanOK, q
    <2>2. /\ DOMAIN ran' = DOMAIN procs' /\ r \in DOMAIN procs'
          /\ ran'[r] = IF Len(ran[r]) > count THEN ran[r] ELSE Append(ran[r], lines[x])
          /\ \A o \in DOMAIN procs' \ {r} : ran'[o] = IF o \in DOMAIN ran THEN ran[o] ELSE <<>>
      BY <1>2, <1>3, <1>5, <1>19, <2>1 DEF Records
    <2>3. lines[x] \in LineRecord /\ ~(Len(ran[r]) > count)
      BY <1>7, <1>8, <1>11, <2>1
    <2>4. ran'[r] \in Seq(LineRecord) /\ Len(ran'[r]) = 3 * q.page + q.line + 1
      BY <2>1, <2>2, <2>3
    <2>5. procs'[r] = here /\ LineCount(here.script) = count
      BY <1>3, <1>19, <1>20 DEF count
    <2>6. Len(ran'[r]) = IF over THEN count ELSE 3 * here.page + here.line
      <3>1. CASE over
        BY <1>7, <1>8, <2>4, <3>1
      <3>2. CASE ~over
        BY <1>16, <2>4, <3>2 DEF here
      <3>3. QED
        BY <3>1, <3>2
    <2>7. ASSUME NEW o \in DOMAIN procs'
          PROVE  /\ ran'[o] \in Seq(LineRecord)
                 /\ Len(ran'[o]) = IF Finished(o)' THEN LineCount(procs'[o].script)
                                   ELSE 3 * procs'[o].page + procs'[o].line
      <3>1. CASE o = r
        BY <1>23, <2>2, <2>4, <2>5, <2>6, <3>1
      <3>2. CASE o \in N
        <4>1. o # r /\ o \notin DOMAIN ran /\ ~Finished(o)'
          BY <1>5, <1>14, <1>23, <2>1, <3>2
        <4>2. ran'[o] = <<>> /\ procs'[o].page = 0 /\ procs'[o].line = 0
          BY <1>3, <1>19, <2>2, <3>2, <4>1
        <4>3. QED
          BY <4>1, <4>2
      <3>3. CASE o # r /\ o \notin N
        <4>1. o \in DOMAIN procs /\ procs'[o] = procs[o] /\ ran'[o] = ran[o]
          BY <1>3, <1>19, <2>1, <2>2, <3>3
        <4>2. Finished(o)' <=> Finished(o)
          BY <1>23, <3>3
        <4>3. QED
          BY <1>2, <4>1, <4>2 DEF RanOK
      <3>4. QED
        BY <3>1, <3>2, <3>3
    <2>8. QED
      BY <2>2, <2>7 DEF RanOK
  <1>28. QED
    BY <1>21, <1>22, <1>25, <1>26, <1>27 DEF SInv

-----------------------------------------------------------------------------
LEMMA SInvStep == SInv /\ [Next]_vars => SInv'
  <1>. SUFFICES ASSUME SInv, [Next]_vars PROVE SInv'
    OBVIOUS
  <1>1. ASSUME NEW f \in Name, Run(f) PROVE SInv'
    <2>1. <<f>> \in Seq(Name \cup {Missing})
      OBVIOUS
    <2>2. QED
      BY <1>1, <2>1, AsksKeeps DEF Run
  <1>2. ASSUME NEW e \in Execs, Exec(e) PROVE SInv'
    <2>1. e \in Seq(Name \cup {Missing})
      BY PagingAssumption
    <2>2. QED
      BY <1>2, <2>1, AsksKeeps DEF Exec
  <1>3. CASE Admit
    BY <1>3, AdmitKeeps
  <1>4. CASE Refuse
    BY <1>4, RefuseKeeps
  <1>5. CASE Dispatch
    BY <1>5, DispatchKeeps
  <1>6. CASE Return
    BY <1>6, ReturnKeeps
  <1>7. CASE PageFault
    BY <1>7, PageFaultKeeps
  <1>8. CASE RunLine
    BY <1>8, RunLineKeeps
  <1>9. CASE UNCHANGED vars
    <2>1. TurnOK'
      BY <1>9 DEF SInv, TurnOK, vars
    <2>2. QED
      BY <1>9, <2>1, StillKeeps DEF vars
  <1>10. QED
    BY <1>1, <1>2, <1>3, <1>4, <1>5, <1>6, <1>7, <1>8, <1>9 DEF Next, Loop

(* The shell keeps its pages, its queue and its counts consistent, however *)
(* its scripts, the sizes and the commands interleave: scripts that run    *)
(* other scripts, an exec that is refused half way, a shell that dies.     *)
THEOREM PagingInvariant == Spec => []SInv
  BY SInvInit, SInvStep, PTL DEF Spec

(* Every variable of the shell keeps its type (pcb.c, shellmemory.c).      *)
THEOREM PagingTypes == Spec => []TypeOK
  <1>1. SInv => TypeOK
    <2>. SUFFICES ASSUME SInv PROVE TypeOK
      OBVIOUS
    <2>1. /\ StateOK(Now, BegunPages) /\ QueueOK /\ TurnOK /\ RanOK
      BY DEF SInv
    <2>2. Now.procs = procs /\ Now.lru = lru
      BY DEF Now
    <2>3. lines \in [Frames -> LineRecord] /\ fate \in Fate
      BY <2>1 DEF StateOK, StateSet, Now
    <2>4. ASSUME NEW p \in DOMAIN procs
          PROVE  /\ procs[p].script \in Name /\ procs[p].line \in Offset
                 /\ procs[p].page \in DOMAIN procs[p].table
                 /\ procs[p].last \in Frames \cup {NoIndex}
                 /\ \A i \in DOMAIN procs[p].table :
                      \/ procs[p].table[i] = NoPage
                      \/ procs[p].table[i] \in [Offset -> Frames \cup {NoIndex}]
      <3>. DEFINE q == procs[p]
                  count == LineCount(q.script)
      <3>1. /\ q \in PcbSet /\ PcbOK(q)
            /\ \A i \in DOMAIN q.table : q.table[i] # NoPage => q.table[i] \in [Offset -> Index]
        BY <2>1, <2>2, PcbIs
      <3>. HIDE DEF q
      <3>2. /\ q.script \in Name /\ q.line \in Offset /\ q.line \in 0 .. 2 /\ q.page \in Nat
            /\ q.last \in Index
        BY <3>1 DEF PcbSet, Offset
      <3>3. count \in Nat
        BY <3>2, LineCountType
      <3>4. DOMAIN q.table = 0 .. count \div 3 /\ 3 * q.page + q.line < count
        BY <3>1 DEF PcbOK
      <3>. HIDE DEF count
      <3>5. q.page \in DOMAIN q.table
        BY <3>2, <3>3, <3>4, Div3
      <3>6. QED
        BY <3>1, <3>2, <3>5 DEF q, Index
    <2>5. \A k \in DOMAIN lru : lru[k].pid \in DOMAIN procs
      BY <2>1, <2>2 DEF StateOK, ToSet
    <2>6. QED
      BY <2>1, <2>3, <2>4, <2>5 DEF TypeOK, QueueOK, TurnOK, RanOK, Fate
  <1>2. QED
    BY <1>1, PagingInvariant, PTL

(* Evicting a page (load_pages_to_memory, load_missing_page_to_mem) frees  *)
(* the lines of that page and of no page that is still to run.             *)
THEOREM LivePagesAreHeld == Spec => []LivePagesHold
  <1>1. SInv => LivePagesHold
    <2>. SUFFICES ASSUME SInv, NEW p \in DOMAIN procs, NEW i \in DOMAIN procs[p].table,
                         procs[p].table[i] # NoPage, Live(p, i), NEW j \in Offset
                  PROVE  LET n == 3 * i + j + 1
                         IN IF n <= LineCount(procs[p].script)
                            THEN lines[procs[p].table[i][j]] = Line(p, n)
                            ELSE \/ procs[p].table[i][j] = NoIndex
                                 \/ lines[procs[p].table[i][j]] = Filling(p)
      BY DEF LivePagesHold
    <2>1. StateOK(Now, BegunPages)
      BY DEF SInv
    <2>2. Now.procs = procs /\ Now.lru = lru /\ Now.lines = lines
      BY DEF Now
    <2>. HIDE DEF Now
    <2>3. LiveIn(Now, BegunPages, p, i)
      BY <2>2, BegunAre DEF Live, LiveIn, Entry
    <2>4. Holds(Now, p, i)
      BY <2>1, <2>2, <2>3 DEF StateOK
    <2>5. QED
      BY <2>2, <2>4 DEF Holds
  <1>2. QED
    BY <1>1, PagingInvariant, PTL

(* A process leaves the ready queue for good exactly when it has run all   *)
(* its lines (scheduler_FCFS, scheduler_RR, ready_queue.c).                *)
THEOREM NoProcessIsLost == Spec => []NoProcessLost
  <1>1. SInv => NoProcessLost
    <2>. SUFFICES ASSUME SInv PROVE NoProcessLost
      OBVIOUS
    <2>1. StateOK(Now, BegunPages) /\ QueueOK /\ RanOK /\ Now.procs = procs
      BY DEF SInv, Now
    <2>2. ASSUME NEW p \in DOMAIN procs
          PROVE  Finished(p) <=> Len(ran[p]) >= LineCount(procs[p].script)
      <3>. DEFINE q == procs[p]
                  count == LineCount(q.script)
      <3>1. q \in PcbSet /\ PcbOK(q)
        BY <2>1, PcbIs
      <3>2. /\ q.page \in Nat /\ q.line \in 0 .. 2 /\ count \in Nat
            /\ 3 * q.page + q.line < count
        BY <3>1, LineCountType DEF PcbSet, PcbOK, Offset
      <3>3. Len(ran[p]) = IF Finished(p) THEN count ELSE 3 * q.page + q.line
        BY <2>1 DEF RanOK
      <3>. HIDE DEF q, count
      <3>4. QED
        BY <3>2, <3>3 DEF q, count
    <2>3. QED
      BY <2>1, <2>2 DEF NoProcessLost, QueueOK
  <1>2. QED
    BY <1>1, PagingInvariant, PTL

(* Reading through an index that load_pages_to_memory has overwritten with *)
(* -1 needs a script whose short last page was loaded with the process.    *)
THEOREM UndefinedNeedsAShortPage == Spec => []UndefinedNeedsShortPage
  <1>1. SInv => UndefinedNeedsShortPage
    BY DEF SInv, StateOK, Now, UndefinedNeedsShortPage, ShortPage
  <1>2. QED
    BY <1>1, PagingInvariant, PTL
=============================================================================
