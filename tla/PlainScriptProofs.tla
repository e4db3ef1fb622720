-------------------------- MODULE PlainScriptProofs --------------------------
(***************************************************************************)
(* Proofs about what PagingKernel does with plain scripts: the ones the    *)
(* kernel is written for, without blank lines, newlines at the end and     *)
(* commands that return 1.  For every size of the frame store, every set   *)
(* of scripts, and whatever lines of the frame store earlier runs of other *)
(* scripts lost: the page tables agree with the frames, the LRU list is    *)
(* exact, every line runs in its turn, and nothing is left behind.         *)
(***************************************************************************)
EXTENDS PagingKernelProofs, WellFoundedInduction

-----------------------------------------------------------------------------
(* Where frames can lie.  Lines of the frame store that an earlier exec    *)
(* lost stay taken; between them, frames are taken from the left.          *)
Three(k) == k .. k + 2
Clear(J, a, b) == \A x \in a .. b : x \notin J
LeftEnd(J, r) == r = 0 \/ r - 1 \in J
Starts(J) ==
  {s \in 0 .. FrameStoreSize - 3 :
     /\ Clear(J, s, s + 2)
     /\ \E r \in 0 .. s : Clear(J, r, s) /\ LeftEnd(J, r) /\ (s - r) % 3 = 0}

Lost(m, ps) == {x \in Frames : m[x].var # None /\ m[x].var \notin DOMAIN ps}

(* The lines of a process and how many of them have run; its page i holds  *)
(* the next line, is in memory, or is one of the two newest it can have.   *)
Size(q) == Len(q.script.lines)
Ran(q) == Size(q) - q.size
At(q, i) == 3 * i <= Ran(q) /\ Ran(q) < 3 * i + 3
Here(q, i) == q.pages[i].valid[0]
Recent(q, i) == (3 * i <= Ran(q) /\ Ran(q) < 3 * i + 6) \/ (i = 1 /\ Ran(q) < 3)

(* A process: what was read of source_file, and where each page is.        *)
PcbPlain(q) ==
  /\ Plain(q.script)
  /\ q.size <= Size(q) /\ Ran(q) <= q.fpos /\ q.fpos <= Size(q)
  /\ DOMAIN q.pages = {i \in 0 .. Size(q) : 3 * i < Size(q)}
  /\ \A i \in DOMAIN q.pages :
       /\ 3 * i < q.fpos => /\ q.fpos = Size(q) \/ 3 * i + 3 <= q.fpos
                            /\ i <= 1 \/ 3 * i <= Ran(q)
       /\ q.pages[i].pc = IF Ran(q) <= 3 * i THEN 0
                          ELSE IF 3 * i + 3 <= Ran(q) THEN 3 ELSE Ran(q) - 3 * i

(* A page in memory: its frame holds its lines, under its name.            *)
PageHere(m, p, q, i, S) ==
  /\ 3 * i < q.fpos /\ q.pages[i].index[0] \in S
  /\ \A j \in Offset :
       /\ q.pages[i].index[j] = q.pages[i].index[0] + j
       /\ q.pages[i].valid[j] <=> 3 * i + j < Size(q)
       /\ m[q.pages[i].index[j]].var = p
       /\ 3 * i + j < Size(q) => m[q.pages[i].index[j]].value = <<p, 3 * i + j + 1>>

(* A page not in memory: not read yet, or done.                            *)
PageAway(q, i) ==
  /\ 3 * i < q.fpos => 3 * i + 3 <= Ran(q) \/ q.size = 0
  /\ \A j \in Offset : ~q.pages[i].valid[j]

PagesPlain(m, ps, S) ==
  \A p \in DOMAIN ps : PcbPlain(ps[p]) /\
    \A i \in DOMAIN ps[p].pages : PageHere(m, p, ps[p], i, S) \/ PageAway(ps[p], i)

(* Every line of a live process is on one of its resident pages.           *)
OwnedPlain(m, ps) ==
  \A x \in Frames : m[x].var \in DOMAIN ps =>
    \E i \in DOMAIN ps[m[x].var].pages :
      Here(ps[m[x].var], i) /\ x \in Three(ps[m[x].var].pages[i].index[0])

(* The list names each resident page once.                                 *)
ListPlain(ps, list) ==
  /\ Distinct(list)
  /\ \A p \in DOMAIN ps : \A i \in DOMAIN ps[p].pages : Here(ps[p], i) <=> In(<<p, i>>, list)

(* There are places for the first two pages of all processes together,     *)
(* since PCB_init found them.                                              *)
Base(ps) == {e \in (DOMAIN ps) \X {0, 1} : e[2] \in DOMAIN ps[e[1]].pages}
BasePlain(ps, S) == \E f \in [Base(ps) -> S] : \A d, e \in Base(ps) : f[d] = f[e] => d = e

(* d is nearer to the head than e.                                         *)
Ahead(list, d, e) == \E m, n \in 1 .. Len(list) : m < n /\ list[m] = d /\ list[n] = e

(* Nearer to the head than the page a process is at are recent pages only. *)
OrderPlain(ps, list) ==
  \A o \in DOMAIN ps : \A i \in DOMAIN ps[o].pages :
    ps[o].size > 0 /\ At(ps[o], i) =>
      \A p \in DOMAIN ps : \A k \in DOMAIN ps[p].pages :
        Ahead(list, <<p, k>>, <<o, i>>) => Recent(ps[p], k)

(* PCB_init loads two pages, if there are two. *)
TwoRead(ps) == \A p \in DOMAIN ps : ps[p].fpos = Size(ps[p]) \/ ps[p].fpos >= 6

CorePlain(m, ps, list, S) ==
  /\ S = Starts(Lost(m, ps))
  /\ PagesPlain(m, ps, S) /\ OwnedPlain(m, ps) /\ ListPlain(ps, list)
  /\ TwoRead(ps) /\ BasePlain(ps, S) /\ OrderPlain(ps, list)

(* Who waits ahead of a process in the queue has no page ahead of the one  *)
(* that process is at: the list is as old as the turns were.               *)
WaitPlain(ps, list, q) ==
  \A p, o \in DOMAIN ps : ps[o].size > 0 /\ Ahead(q, p, o) =>
    \A i \in DOMAIN ps[o].pages : \A k \in DOMAIN ps[p].pages :
      At(ps[o], i) => ~Ahead(list, <<p, k>>, <<o, i>>)

(* The process on the processor may have moved its page there already.     *)
TurnPlain(ps, list, c) ==
  c # Idle => \A o \in DOMAIN ps \ {c.pid} : ps[o].size > 0 =>
    \A i \in DOMAIN ps[o].pages : \A k \in DOMAIN ps[c.pid].pages :
      At(ps[o], i) /\ Ahead(list, <<c.pid, k>>, <<o, i>>) =>
        c.left = 1 /\ 3 * k < Ran(ps[c.pid]) /\ Ran(ps[c.pid]) <= 3 * k + 3

(* While a process is in its first page no other is a turn further: the    *)
(* turns are round robin until the first page fault.                       *)
SyncPlain(ps, q, c) ==
  \A o \in DOMAIN ps : ps[o].size > 0 /\ Ran(ps[o]) < 3 =>
    \A p \in DOMAIN ps \ {o} :
      /\ Ran(ps[p]) <= Ran(ps[o]) + 2
      /\ Ahead(q, p, o) => Ran(ps[p]) <= Ran(ps[o])
      /\ c.pid = p => Ran(ps[p]) + c.left <= Ran(ps[o]) + 2
      /\ c.pid = o /\ c.requeue => Ran(ps[p]) <= Ran(ps[o]) + c.left

(* Two lines a turn: a process of several pages gets to its third page at  *)
(* the end of a turn.                                                      *)
EvenPlain(ps, c) ==
  \A p \in DOMAIN ps : Ran(ps[p]) < 6 /\ ps[p].size > 0 =>
    /\ c.pid # p => Ran(ps[p]) % 2 = 0
    /\ c.pid = p /\ c.requeue => (Ran(ps[p]) + c.left) % 2 = 0

(* The lines run are the first lines of the script.                        *)
RanPlain(ps, ex) == \A p \in DOMAIN ps : ex[p] = [n \in 1 .. Ran(ps[p]) |-> <<p, n>>]

(* All of it, while every script is plain.                                 *)
PlainInv ==
  /\ CorePlain(mem, pcbs, lru, Starts(Lost(mem, pcbs)))
  /\ WaitPlain(pcbs, lru, queue) /\ TurnPlain(pcbs, lru, cpu)
  /\ SyncPlain(pcbs, queue, cpu) /\ EvenPlain(pcbs, cpu)
  /\ RanPlain(pcbs, executed)
  /\ phase = "loading" => \A p \in DOMAIN pcbs : Ran(pcbs[p]) = 0

(* Lines are records, and those of the frame store are free or belong to a *)
(* process, a live one or one of before.                                   *)
Owned(m, next) ==
  /\ \A x \in Position : m[x] = [var |-> m[x].var, value |-> m[x].value]
  /\ \A x \in Frames : m[x].var = None \/ (m[x].var \in Pid /\ m[x].var < next)

(* The inductive invariant, with KInv. *)
OInv ==
  /\ Owned(mem, nextPid)
  /\ phase = "prompt" => pcbs = <<>>
  /\ AllPlain => PlainInv

-----------------------------------------------------------------------------
(* The order of a sequence.                                                *)

LEMMA AheadIn ==
  ASSUME NEW list, NEW c, NEW d, Ahead(list, c, d)
  PROVE  In(c, list) /\ In(d, list)
  BY DEF Ahead, In

(* What is pushed is ahead of all others, which keep their order. *)
LEMMA AheadPush ==
  ASSUME NEW S, NEW list \in Seq(S), NEW e \in S, ~In(e, list), Distinct(list)
  PROVE  /\ Distinct(<<e>> \o list)
         /\ \A c, d : Ahead(<<e>> \o list, c, d) => (c = e /\ In(d, list)) \/ Ahead(list, c, d)
  <1>. DEFINE new == <<e>> \o list
  <1>1. new \in Seq(S) /\ Len(new) = Len(list) + 1 /\ new[1] = e /\ Len(list) \in Nat
    OBVIOUS
  <1>2. \A n \in 1 .. Len(list) : new[n + 1] = list[n]
    OBVIOUS
  <1>. HIDE DEF new
  <1>3. \A n \in 2 .. Len(new) : n - 1 \in 1 .. Len(list) /\ new[n] = list[n - 1]
    <2>1. ASSUME NEW n \in 2 .. Len(new)
          PROVE  n - 1 \in 1 .. Len(list) /\ new[n] = list[n - 1]
      <3>1. n - 1 \in 1 .. Len(list) /\ (n - 1) + 1 = n
        BY <1>1
      <3>2. QED
        BY <1>2, <3>1
    <2>2. QED
      BY <2>1
  <1>4. Distinct(new)
    <2>1. ASSUME NEW m \in 1 .. Len(new), NEW n \in 1 .. Len(new), new[m] = new[n]
          PROVE  m = n
      <3>1. CASE m = 1 /\ n = 1
        BY <3>1
      <3>2. CASE m = 1 /\ n # 1
        <4>1. n \in 2 .. Len(new)
          BY <1>1, <3>2
        <4>2. n - 1 \in 1 .. Len(list) /\ list[n - 1] = e
          BY <1>1, <1>3, <2>1, <3>2, <4>1
        <4>3. QED
          BY <4>2 DEF In
      <3>3. CASE m # 1 /\ n = 1
        <4>1. m \in 2 .. Len(new)
          BY <1>1, <3>3
        <4>2. m - 1 \in 1 .. Len(list) /\ list[m - 1] = e
          BY <1>1, <1>3, <2>1, <3>3, <4>1
        <4>3. QED
          BY <4>2 DEF In
      <3>4. CASE m # 1 /\ n # 1
        <4>1. m \in 2 .. Len(new) /\ n \in 2 .. Len(new)
          BY <1>1, <3>4
        <4>2. /\ m - 1 \in 1 .. Len(list) /\ n - 1 \in 1 .. Len(list)
              /\ list[m - 1] = list[n - 1]
          BY <1>3, <2>1, <4>1
        <4>3. m - 1 = n - 1
          BY <4>2 DEF Distinct
        <4>4. QED
          BY <4>1, <4>3
      <3>5. QED
        BY <3>1, <3>2, <3>3, <3>4
    <2>2. QED
      BY <2>1 DEF Distinct
  <1>5. ASSUME NEW c, NEW d, Ahead(new, c, d)
        PROVE  (c = e /\ In(d, list)) \/ Ahead(list, c, d)
    <2>1. PICK m, n \in 1 .. Len(new) : m < n /\ new[m] = c /\ new[n] = d
      BY <1>5 DEF Ahead
    <2>2. n \in 2 .. Len(new)
      BY <1>1, <2>1
    <2>3. n - 1 \in 1 .. Len(list) /\ list[n - 1] = d
      BY <1>3, <2>1, <2>2
    <2>4. CASE m = 1
      BY <1>1, <2>1, <2>3, <2>4 DEF In
    <2>5. CASE m # 1
      <3>1. m \in 2 .. Len(new)
        BY <1>1, <2>1, <2>5
      <3>2. m - 1 \in 1 .. Len(list) /\ list[m - 1] = c /\ m - 1 < n - 1
        BY <1>3, <2>1, <2>2, <3>1
      <3>3. QED
        BY <2>3, <3>2 DEF Ahead
    <2>6. QED
      BY <2>4, <2>5
  <1>6. QED
    BY <1>4, <1>5 DEF new

(* What is left after a removal keeps its order. *)
LEMMA AheadWithout ==
  ASSUME NEW S, NEW list \in Seq(S), NEW n \in 1 .. Len(list), Distinct(list)
  PROVE  /\ Distinct(Without(list, n)) /\ ~In(list[n], Without(list, n))
         /\ \A c, d : Ahead(Without(list, n), c, d) => Ahead(list, c, d)
  <1>. DEFINE L == Len(list)
              new == Without(list, n)
              old(x) == IF x < n THEN x ELSE x + 1
  <1>1. L \in Nat /\ Len(new) = L - 1
    BY WithoutIs
  <1>2. /\ \A x \in 1 .. n - 1 : new[x] = list[x]
        /\ \A x \in n .. L - 1 : new[x] = list[x + 1]
    BY WithoutIs
  <1>. HIDE DEF new
  <1>3. \A x \in 1 .. Len(new) : old(x) \in 1 .. L /\ old(x) # n /\ new[x] = list[old(x)]
    <2>1. ASSUME NEW x \in 1 .. Len(new)
          PROVE  old(x) \in 1 .. L /\ old(x) # n /\ new[x] = list[old(x)]
      <3>1. CASE x < n
        <4>1. x \in 1 .. n - 1 /\ x \in 1 .. L
          BY <1>1, <3>1
        <4>2. QED
          BY <1>2, <3>1, <4>1
      <3>2. CASE ~(x < n)
        <4>1. x \in n .. L - 1 /\ x + 1 \in 1 .. L /\ x + 1 # n
          BY <1>1, <3>2
        <4>2. QED
          BY <1>2, <3>2, <4>1
      <3>3. QED
        BY <3>1, <3>2
    <2>2. QED
      BY <2>1
  <1>4. \A x, y \in 1 .. Len(new) : x < y <=> old(x) < old(y)
    BY <1>1
  <1>5. \A x, y \in 1 .. Len(new) : old(x) = old(y) => x = y
    BY <1>1
  <1>. HIDE DEF old
  <1>6. Distinct(new)
    BY <1>3, <1>5 DEF Distinct
  <1>7. ~In(list[n], new)
    BY <1>3 DEF Distinct, In
  <1>8. ASSUME NEW c, NEW d, Ahead(new, c, d) PROVE Ahead(list, c, d)
    <2>1. PICK x, y \in 1 .. Len(new) : x < y /\ new[x] = c /\ new[y] = d
      BY <1>8 DEF Ahead
    <2>2. QED
      BY <1>3, <1>4, <2>1 DEF Ahead
  <1>9. QED
    BY <1>6, <1>7, <1>8 DEF new

(* Every other element is ahead of the last one. *)
LEMMA AheadOfLast ==
  ASSUME NEW S, NEW list \in Seq(S), list # <<>>, NEW d, In(d, list), d # list[Len(list)]
  PROVE  Ahead(list, d, list[Len(list)])
  <1>1. Len(list) \in Nat \ {0}
    OBVIOUS
  <1>2. PICK n \in 1 .. Len(list) : list[n] = d
    BY DEF In
  <1>3. n < Len(list) /\ Len(list) \in 1 .. Len(list)
    BY <1>1, <1>2
  <1>4. QED
    BY <1>2, <1>3 DEF Ahead

(* What is appended is behind all others, which keep their order. *)
LEMMA AheadAppend ==
  ASSUME NEW S, NEW q \in Seq(S), NEW e
  PROVE  \A c, d : Ahead(Append(q, e), c, d) => (In(c, q) /\ d = e) \/ Ahead(q, c, d)
  <1>. DEFINE new == Append(q, e)
  <1>1. /\ Len(q) \in Nat /\ Len(new) = Len(q) + 1 /\ new[Len(q) + 1] = e
        /\ \A n \in 1 .. Len(q) : new[n] = q[n]
    OBVIOUS
  <1>. HIDE DEF new
  <1>2. ASSUME NEW c, NEW d, Ahead(new, c, d)
        PROVE  (In(c, q) /\ d = e) \/ Ahead(q, c, d)
    <2>1. PICK m, n \in 1 .. Len(new) : m < n /\ new[m] = c /\ new[n] = d
      BY <1>2 DEF Ahead
    <2>2. m \in 1 .. Len(q) /\ q[m] = c
      BY <1>1, <2>1
    <2>3. CASE n = Len(q) + 1
      BY <1>1, <2>1, <2>2, <2>3 DEF In
    <2>4. CASE n # Len(q) + 1
      <3>1. n \in 1 .. Len(q) /\ q[n] = d
        BY <1>1, <2>1, <2>4
      <3>2. QED
        BY <2>1, <2>2, <3>1 DEF Ahead
    <2>5. QED
      BY <2>3, <2>4
  <1>3. QED
    BY <1>2 DEF new

(* Without its head the queue keeps its order. *)
LEMMA AheadTail ==
  ASSUME NEW S, NEW q \in Seq(S), q # <<>>
  PROVE  /\ \A c, d : Ahead(Tail(q), c, d) => Ahead(q, c, d)
         /\ \A d : In(d, Tail(q)) => Ahead(q, Head(q), d)
  <1>. DEFINE new == Tail(q)
  <1>1. /\ Len(q) \in Nat \ {0} /\ q[1] = Head(q) /\ Len(new) = Len(q) - 1
        /\ \A n \in 1 .. Len(new) : new[n] = q[n + 1]
    OBVIOUS
  <1>. HIDE DEF new
  <1>2. \A n \in 1 .. Len(new) : n + 1 \in 1 .. Len(q) /\ q[n + 1] = new[n] /\ 1 < n + 1
    BY <1>1
  <1>3. 1 \in 1 .. Len(q)
    BY <1>1
  <1>4. ASSUME NEW c, NEW d, Ahead(new, c, d) PROVE Ahead(q, c, d)
    <2>1. PICK m, n \in 1 .. Len(new) : m < n /\ new[m] = c /\ new[n] = d
      BY <1>4 DEF Ahead
    <2>2. m + 1 < n + 1
      BY <1>1, <2>1
    <2>3. QED
      BY <1>2, <2>1, <2>2 DEF Ahead
  <1>5. ASSUME NEW d, In(d, new) PROVE Ahead(q, Head(q), d)
    <2>1. PICK n \in 1 .. Len(new) : new[n] = d
      BY <1>5 DEF In
    <2>2. QED
      BY <1>1, <1>2, <1>3, <2>1 DEF Ahead
  <1>6. QED
    BY <1>4, <1>5 DEF new

-----------------------------------------------------------------------------
(* The places for frames do not overlap, and a frame that fits anywhere    *)
(* leaves one of them free.                                                *)

LEMMA HasLeast ==
  ASSUME NEW A \in SUBSET Nat, A # {}
  PROVE  \E x \in A : \A y \in A : x <= y
  <1>1. PICK x \in A : \A y \in A : ~(<<y, x>> \in OpToRel(<, Nat))
    BY NatLessThanWellFounded, WFMin, Zenon
  <1>2. \A y \in A : ~(y < x)
    BY <1>1 DEF OpToRel
  <1>3. QED
    BY <1>2

(* Two places for frames are equal or have no line in common. *)
LEMMA StartsApart ==
  ASSUME NEW J, NEW s \in Starts(J), NEW t \in Starts(J), s < t, t <= s + 2
  PROVE  FALSE
  <1>1. /\ s \in Nat /\ t \in Nat
        /\ \A x \in s .. s + 2 : x \notin J
        /\ \A x \in t .. t + 2 : x \notin J
    BY DEF Starts, Clear
  <1>2. PICK a \in 0 .. s : (\A x \in a .. s : x \notin J) /\ LeftEnd(J, a) /\ (s - a) % 3 = 0
    BY DEF Starts, Clear
  <1>3. PICK b \in 0 .. t : (\A x \in b .. t : x \notin J) /\ LeftEnd(J, b) /\ (t - b) % 3 = 0
    BY DEF Starts, Clear
  <1>4. CASE a < b
    <2>1. b - 1 \in J
      BY <1>2, <1>3, <1>4 DEF LeftEnd
    <2>2. b - 1 \in a .. s \/ b - 1 \in s .. s + 2
      BY <1>1, <1>2, <1>3, <1>4
    <2>3. QED
      BY <1>1, <1>2, <2>1, <2>2
  <1>5. CASE b < a
    <2>1. a - 1 \in J
      BY <1>2, <1>3, <1>5 DEF LeftEnd
    <2>2. a - 1 \in b .. t
      BY <1>1, <1>2, <1>3, <1>5
    <2>3. QED
      BY <1>3, <2>1, <2>2
  <1>6. CASE a = b
    BY <1>1, <1>2, <1>3, <1>6
  <1>7. QED
    BY <1>2, <1>3, <1>4, <1>5, <1>6

(* Places do not overlap, and three lines that are not lost meet one.      *)
LEMMA Tiling ==
  ASSUME NEW J, NEW S, S = Starts(J)
  PROVE  /\ \A s \in S : s \in 0 .. FrameStoreSize - 3 /\ \A x \in Three(s) : x \notin J
         /\ \A s, t \in S : \A x : x \in Three(s) /\ x \in Three(t) => s = t
         /\ \A k \in 0 .. FrameStoreSize - 3 :
              (\A x \in Three(k) : x \notin J) => \E s \in S : k \in Three(s)
  <1>1. \A s \in S : s \in 0 .. FrameStoreSize - 3 /\ \A x \in Three(s) : x \notin J
    BY DEF Starts, Clear, Three
  <1>2. ASSUME NEW s \in S, NEW t \in S, NEW x, x \in Three(s), x \in Three(t)
        PROVE  s = t
    <2>1. s \in Nat /\ t \in Nat
      BY <1>1
    <2>2. x \in s .. s + 2 /\ x \in t .. t + 2
      BY <1>2 DEF Three
    <2>3. t <= s + 2 /\ s <= t + 2
      BY <2>1, <2>2
    <2>4. ~(s < t) /\ ~(t < s)
      BY <2>3, StartsApart
    <2>5. QED
      BY <2>1, <2>4
  <1>3. ASSUME NEW k \in 0 .. FrameStoreSize - 3, \A x \in Three(k) : x \notin J
        PROVE  \E s \in S : k \in Three(s)
    <2>. DEFINE A == {r \in 0 .. k : \A x \in r .. k : x \notin J}
    <2>1. k \in Nat /\ \A x \in k .. k + 2 : x \notin J
      BY <1>3 DEF Three
    <2>2. k \in A /\ A \in SUBSET Nat
      BY <2>1
    <2>3. PICK r \in A : \A y \in A : r <= y
      BY <2>2, HasLeast
    <2>4. r \in 0 .. k /\ \A x \in r .. k : x \notin J
      BY <2>3
    <2>5. LeftEnd(J, r)
      <3>1. SUFFICES ASSUME r # 0, r - 1 \notin J PROVE FALSE
        BY DEF LeftEnd
      <3>2. r - 1 \in 0 .. k /\ \A x \in r - 1 .. k : x \notin J
        BY <2>1, <2>4, <3>1
      <3>3. r - 1 \in A
        BY <3>2
      <3>4. QED
        BY <2>3, <2>4, <3>3
    <2>. HIDE DEF A
    <2>6. PICK s \in r .. k : k <= s + 2 /\ (s - r) % 3 = 0
      <3>1. (k - r) % 3 \in 0 .. 2 /\ k - ((k - r) % 3) \in r .. k
        BY <2>1, <2>4
      <3>2. ((k - ((k - r) % 3)) - r) % 3 = 0
        BY <2>1, <2>4
      <3>3. k <= (k - ((k - r) % 3)) + 2
        BY <2>1, <2>4, <3>1
      <3>4. QED
        BY <3>1, <3>2, <3>3
    <2>7. \A x \in s .. s + 2 : x \notin J
      BY <2>1, <2>4, <2>6
    <2>8. s \in 0 .. FrameStoreSize - 3 /\ r \in 0 .. s /\ \A x \in r .. s : x \notin J
      BY <1>3, <2>4, <2>6, KernelAssumption
    <2>9. s \in S
      BY <2>5, <2>6, <2>7, <2>8 DEF Starts, Clear
    <2>10. k \in Three(s)
      BY <2>1, <2>6 DEF Three
    <2>11. QED
      BY <2>9, <2>10
  <1>4. QED
    BY <1>1, <1>2, <1>3

(* Two resident pages have two frames: a frame says whose it is. *)
LEMMA OneFrameEach ==
  ASSUME NEW m, NEW ps, NEW S, PagesPlain(m, ps, S),
         NEW p \in DOMAIN ps, NEW i \in DOMAIN ps[p].pages, Here(ps[p], i),
         NEW r \in DOMAIN ps, NEW h \in DOMAIN ps[r].pages, Here(ps[r], h),
         ps[p].pages[i].index[0] = ps[r].pages[h].index[0]
  PROVE  p = r /\ i = h
  <1>1. PageHere(m, p, ps[p], i, S) /\ PageHere(m, r, ps[r], h, S)
    BY DEF PagesPlain, PageAway, Here, Offset
  <1>2. /\ i \in Nat /\ h \in Nat /\ 3 * i < Size(ps[p]) /\ 3 * h < Size(ps[r])
    BY DEF PagesPlain, PcbPlain
  <1>. DEFINE k == ps[p].pages[i].index[0]
  <1>3. /\ m[k].var = p /\ m[k].var = r
        /\ m[k].value = <<p, 3 * i + 0 + 1>> /\ m[k].value = <<r, 3 * h + 0 + 1>>
    <2>1. 3 * i + 0 < Size(ps[p]) /\ 3 * h + 0 < Size(ps[r])
      BY <1>2
    <2>2. 0 \in Offset
      BY DEF Offset
    <2>3. QED
      <3>1. /\ m[ps[p].pages[i].index[0]].var = p
            /\ m[ps[p].pages[i].index[0]].value = <<p, 3 * i + 0 + 1>>
        BY <1>1, <2>1, <2>2, Zenon DEF PageHere
      <3>2. /\ m[ps[r].pages[h].index[0]].var = r
            /\ m[ps[r].pages[h].index[0]].value = <<r, 3 * h + 0 + 1>>
        BY <1>1, <2>1, <2>2, Zenon DEF PageHere
      <3>3. QED
        BY <3>1, <3>2, Zenon
  <1>4. p = r
    BY <1>3, Zenon
  <1>5. PICK a : a = 3 * i + 0 + 1
    OBVIOUS
  <1>6. PICK b : b = 3 * h + 0 + 1
    OBVIOUS
  <1>7. <<p, a>> = <<r, b>>
    BY <1>3, <1>5, <1>6, Zenon
  <1>8. a = b
    BY <1>7
  <1>9. i = h
    BY <1>2, <1>5, <1>6, <1>8
  <1>10. QED
    BY <1>4, <1>9

(* A resident page has its frame to itself, line by line. *)
LEMMA HereFrame ==
  ASSUME NEW m, NEW p, NEW q, NEW i, NEW S, PageHere(m, p, q, i, S),
         q.pages[i].index[0] \in Nat, NEW x \in Three(q.pages[i].index[0])
  PROVE  m[x].var = p
  <1>. DEFINE k == q.pages[i].index[0]
  <1>1. k \in Nat /\ x \in k .. k + 2
    BY DEF PageHere, Three
  <1>2. PICK j \in Offset : x = k + j
    <2>1. x - k \in Offset /\ x = k + (x - k)
      BY <1>1 DEF Offset
    <2>2. QED
      BY <2>1
  <1>3. QED
    BY <1>2, Zenon DEF PageHere

(* The frame store as plain scripts leave it. *)
FramesPlain(m, ps, S) ==
  /\ None \notin DOMAIN ps
  /\ S = Starts(Lost(m, ps)) /\ PagesPlain(m, ps, S) /\ OwnedPlain(m, ps)

(* A page whose first line is valid is in memory. *)
LEMMA IsHere ==
  ASSUME NEW m, NEW ps, NEW S, PagesPlain(m, ps, S),
         NEW p \in DOMAIN ps, NEW i \in DOMAIN ps[p].pages, Here(ps[p], i)
  PROVE  PageHere(m, p, ps[p], i, S)
  BY DEF PagesPlain, PageAway, Here, Offset

(* Frames lie inside the frame store. *)
LEMMA StartsType ==
  ASSUME NEW J
  PROVE  Starts(J) \subseteq 0 .. FrameStoreSize - 3
  BY DEF Starts

(* A taken line at a place for frames is of the resident page that lies there. *)
LEMMA PlaceOf ==
  ASSUME NEW m, NEW ps, NEW S, FramesPlain(m, ps, S),
         NEW s \in S, NEW x \in Three(s), m[x].var # None
  PROVE  \E p \in DOMAIN ps : \E i \in DOMAIN ps[p].pages :
           Here(ps[p], i) /\ ps[p].pages[i].index[0] = s
  <1>1. s \in 0 .. FrameStoreSize - 3 /\ x \notin Lost(m, ps)
    BY Tiling DEF FramesPlain
  <1>2. x \in Frames
    BY <1>1, KernelAssumption DEF Frames, Three
  <1>3. m[x].var \in DOMAIN ps
    BY <1>1, <1>2 DEF Lost
  <1>4. PICK p : p = m[x].var
    OBVIOUS
  <1>5. PICK i \in DOMAIN ps[p].pages : Here(ps[p], i) /\ x \in Three(ps[p].pages[i].index[0])
    BY <1>2, <1>3, <1>4 DEF FramesPlain, OwnedPlain
  <1>6. ps[p].pages[i].index[0] \in S
    <2>1. PagesPlain(m, ps, S) /\ p \in DOMAIN ps
      BY <1>3, <1>4, Zenon DEF FramesPlain
    <2>2. PageHere(m, p, ps[p], i, S)
      BY <1>5, <2>1, IsHere
    <2>3. QED
      BY <2>2, Zenon DEF PageHere
  <1>7. ps[p].pages[i].index[0] = s
    BY <1>5, <1>6, Tiling DEF FramesPlain
  <1>8. QED
    BY <1>3, <1>4, <1>5, <1>7

(* frame_alloc finds a place for frames. *)
LEMMA FirstFitIs ==
  ASSUME NEW m, NEW ps, NEW S, FramesPlain(m, ps, S), NEW k, FirstFit(m, k)
  PROVE  k \in S /\ k \in 0 .. FrameStoreSize - 3 /\ \A x \in Three(k) : m[x].var = None
  <1>1. k \in 0 .. FrameStoreSize - 3 /\ \A j \in 0 .. 2 : m[k + j].var = None
    BY DEF FirstFit, Fits, Offset
  <1>2. \A x \in Three(k) : m[x].var = None
    <2>1. ASSUME NEW x \in Three(k) PROVE m[x].var = None
      <3>1. x - k \in 0 .. 2 /\ k + (x - k) = x
        BY <1>1, <2>1 DEF Three
      <3>2. QED
        BY <1>1, <3>1
    <2>2. QED
      BY <2>1
  <1>3. \A x \in Three(k) : x \notin Lost(m, ps)
    BY <1>2 DEF Lost
  <1>4. PICK s \in S : k \in Three(s)
    BY <1>1, <1>3, Tiling DEF FramesPlain
  <1>5. s \in 0 .. FrameStoreSize - 3 /\ k \in s .. s + 2 /\ S \subseteq Nat
    BY <1>4, Tiling, StartsType DEF FramesPlain, Three
  <1>6. \A x \in Three(s) : m[x].var = None
    <2>1. SUFFICES ASSUME NEW x \in Three(s), m[x].var # None PROVE FALSE
      OBVIOUS
    <2>2. PICK p \in DOMAIN ps : \E i \in DOMAIN ps[p].pages :
             Here(ps[p], i) /\ ps[p].pages[i].index[0] = s
      BY <2>1, PlaceOf
    <2>3. PICK i \in DOMAIN ps[p].pages : Here(ps[p], i) /\ ps[p].pages[i].index[0] = s
      BY <2>2
    <2>4. PageHere(m, p, ps[p], i, S)
      BY <2>3, IsHere DEF FramesPlain
    <2>5. m[k].var = p
      <3>1. PICK q : q = ps[p]
        OBVIOUS
      <3>2. k \in Three(q.pages[i].index[0]) /\ PageHere(m, p, q, i, S) /\ q.pages[i].index[0] \in Nat
        BY <1>4, <1>5, <2>3, <2>4, <3>1
      <3>3. QED
        BY <3>2, HereFrame
    <2>6. m[k].var = None
      BY <1>1, <1>2 DEF Three
    <2>7. QED
      BY <2>5, <2>6 DEF FramesPlain
  <1>7. Fits(m, s)
    <2>1. \A j \in Offset : s + j \in Three(s)
      BY <1>5 DEF Offset, Three
    <2>2. QED
      BY <1>5, <1>6, <2>1 DEF Fits
  <1>8. s = k
    <2>1. s \notin 0 .. k - 1
      BY <1>7 DEF FirstFit
    <2>2. QED
      BY <1>1, <1>5, <2>1
  <1>9. QED
    BY <1>1, <1>2, <1>4, <1>8

(* When no frame is free every place holds a page. *)
LEMMA NoFrameIs ==
  ASSUME NEW m, NEW ps, NEW S, FramesPlain(m, ps, S), NoFrame(m), NEW s \in S
  PROVE  \E p \in DOMAIN ps : \E i \in DOMAIN ps[p].pages :
           Here(ps[p], i) /\ ps[p].pages[i].index[0] = s
  <1>1. s \in 0 .. FrameStoreSize - 3 /\ s \in Frames
    BY Tiling, KernelAssumption DEF FramesPlain, Frames
  <1>2. ~Fits(m, s)
    BY <1>1 DEF NoFrame
  <1>3. PICK j \in Offset : m[s + j].var # None
    BY <1>1, <1>2 DEF Fits
  <1>4. s + j \in Three(s)
    BY <1>1 DEF Offset, Three
  <1>5. QED
    BY <1>3, <1>4, PlaceOf

-----------------------------------------------------------------------------
(* What load_PAGE, PAGE_evict and the end of a line change in a process.   *)

LEMMA LoadedIs ==
  ASSUME NEW q \in PcbType, NEW i \in DOMAIN q.pages, NEW k, NEW new, new = LoadedPcb(q, i, k)
  PROVE  /\ new.script = q.script /\ new.size = q.size
         /\ new.fpos = IF Reads(q, 2) THEN q.fpos + 3 ELSE Size(q)
         /\ DOMAIN new.pages = DOMAIN q.pages
         /\ \A h \in DOMAIN q.pages : h # i => new.pages[h] = q.pages[h]
         /\ \A j \in Offset : new.pages[i].index[j] = k + j
         /\ \A j \in Offset : new.pages[i].valid[j] <=> Reads(q, j)
         /\ new.pages[i].pc = q.pages[i].pc
  <1>. DEFINE index == [j \in Offset |-> k + j]
              valid == [j \in Offset |-> Reads(q, j)]
              fpos == IF Reads(q, 2) THEN q.fpos + 3 ELSE Size(q)
  <1>1. PICK n \in Nat \ {0} :
          /\ DOMAIN q.pages = 0 .. n - 1
          /\ q \in [script : Script, size : Nat, fpos : Nat, pages : [0 .. n - 1 -> Page]]
    BY PcbTypeIs
  <1>2. new = [q EXCEPT !.pages[i].index = index, !.pages[i].valid = valid, !.fpos = fpos]
    BY DEF LoadedPcb, Size
  <1>. HIDE DEF index, valid, fpos
  <1>3. /\ new.script = q.script /\ new.size = q.size /\ new.fpos = fpos
        /\ DOMAIN new.pages = DOMAIN q.pages
        /\ \A h \in DOMAIN q.pages : h # i => new.pages[h] = q.pages[h]
        /\ new.pages[i].index = index /\ new.pages[i].valid = valid
        /\ new.pages[i].pc = q.pages[i].pc
    <2>. DEFINE X == [Offset -> Frames \cup {NeverLoaded}]
                V == [Offset -> BOOLEAN]
                C == 0 .. 3
                D == 0 .. n - 1
    <2>1. /\ q \in [script : Script, size : Nat, fpos : Nat,
                    pages : [D -> [index : X, valid : V, pc : C]]]
          /\ i \in D /\ DOMAIN q.pages = D
      BY <1>1 DEF Page
    <2>. HIDE DEF X, V, C, D
    <2>2. QED
      BY <1>2, <2>1
  <1>4. QED
    BY <1>3 DEF index, valid, fpos

(* PAGE_evict changes one page, and in it no program counter. *)
LEMMA EvictedIs ==
  ASSUME NEW q \in PcbType, NEW i \in DOMAIN q.pages, NEW new, new = EvictedPcb(q, i)
  PROVE  /\ new.script = q.script /\ new.size = q.size /\ new.fpos = q.fpos
         /\ DOMAIN new.pages = DOMAIN q.pages
         /\ \A h \in DOMAIN q.pages : h # i => new.pages[h] = q.pages[h]
         /\ \A j \in Offset : ~new.pages[i].valid[j]
         /\ new.pages[i].pc = q.pages[i].pc
  <1>1. PICK n \in Nat \ {0} :
          /\ DOMAIN q.pages = 0 .. n - 1
          /\ q \in [script : Script, size : Nat, fpos : Nat, pages : [0 .. n - 1 -> Page]]
    BY PcbTypeIs
  <1>2. PICK page : page = EvictedPage(q.pages[i])
    OBVIOUS
  <1>3. page.pc = q.pages[i].pc /\ \A j \in Offset : ~page.valid[j]
    BY <1>1, <1>2 DEF EvictedPage, Page
  <1>4. /\ new.script = q.script /\ new.size = q.size /\ new.fpos = q.fpos
        /\ DOMAIN new.pages = DOMAIN q.pages
        /\ \A h \in DOMAIN q.pages : h # i => new.pages[h] = q.pages[h]
        /\ new.pages[i] = page
    BY <1>1, <1>2 DEF EvictedPcb
  <1>5. QED
    BY <1>3, <1>4

(* A line that ran moves one program counter by one. *)
LEMMA AdvancedIs ==
  ASSUME NEW p \in DOMAIN pcbs, pcbs[p] \in PcbType, NEW i \in DOMAIN pcbs[p].pages,
         NEW q, q = pcbs[p], NEW new, new = Advanced(p, i)
  PROVE  /\ new.script = q.script /\ new.size = q.size - 1 /\ new.fpos = q.fpos
         /\ DOMAIN new.pages = DOMAIN q.pages
         /\ \A h \in DOMAIN q.pages : h # i => new.pages[h] = q.pages[h]
         /\ new.pages[i].index = q.pages[i].index /\ new.pages[i].valid = q.pages[i].valid
         /\ new.pages[i].pc = q.pages[i].pc + 1
  <1>1. PICK n \in Nat \ {0} :
          /\ DOMAIN q.pages = 0 .. n - 1
          /\ q \in [script : Script, size : Nat, fpos : Nat, pages : [0 .. n - 1 -> Page]]
    BY PcbTypeIs
  <1>2. PICK pc, size : pc = q.pages[i].pc + 1 /\ size = q.size - 1
    OBVIOUS
  <1>3. new = [q EXCEPT !.pages[i].pc = pc, !.size = size]
    BY <1>2 DEF Advanced
  <1>4. QED
    BY <1>1, <1>2, <1>3 DEF Page

-----------------------------------------------------------------------------
(* The page tables and the frames after a line, an eviction and a load.    *)

LEMMA PcbFacts ==
  ASSUME NEW q, PcbPlain(q), q \in PcbType
  PROVE  /\ Size(q) \in Nat \ {0} /\ q.size \in Nat /\ q.fpos \in Nat /\ Ran(q) \in Nat
         /\ Ran(q) = Size(q) - q.size /\ Ran(q) <= Size(q)
         /\ \A i \in DOMAIN q.pages : i \in Nat /\ 3 * i < Size(q)
         /\ \A i \in Nat : 3 * i < Size(q) => i \in DOMAIN q.pages
  <1>1. q.size \in Nat /\ q.fpos \in Nat /\ q.script \in Script
    BY DEF PcbType
  <1>2. q.script.lines \in Seq({"ok", "one", "blank"}) /\ q.script.lines # <<>>
    BY <1>1, KernelAssumption DEF PcbPlain, Plain
  <1>3. Size(q) \in Nat \ {0}
    BY <1>2 DEF Size
  <1>4. Ran(q) \in Nat /\ Ran(q) = Size(q) - q.size /\ Ran(q) <= Size(q)
    BY <1>1, <1>3 DEF PcbPlain, Ran
  <1>5. \A i : i \in DOMAIN q.pages <=> i \in 0 .. Size(q) /\ 3 * i < Size(q)
    BY DEF PcbPlain
  <1>6. \A i \in Nat : 3 * i < Size(q) => i \in 0 .. Size(q)
    BY <1>3
  <1>7. QED
    BY <1>1, <1>3, <1>4, <1>5, <1>6

(* The page that run_proc finds. *)
LEMMA CurrentIs ==
  ASSUME NEW p \in DOMAIN pcbs, pcbs[p] \in PcbType, PcbPlain(pcbs[p]), NEW i, Current(p, i)
  PROVE  /\ i \in DOMAIN pcbs[p].pages /\ At(pcbs[p], i)
         /\ pcbs[p].pages[i].pc = Ran(pcbs[p]) - 3 * i
  <1>1. PICK q : q = pcbs[p]
    OBVIOUS
  <1>2. /\ i \in DOMAIN q.pages /\ q.pages[i].pc # 3
        /\ \A h \in 0 .. i - 1 : q.pages[h].pc = 3
    BY <1>1 DEF Current
  <1>3. /\ Ran(q) \in Nat /\ i \in Nat /\ 3 * i < Size(q) /\ Size(q) \in Nat
        /\ \A h \in Nat : 3 * h < Size(q) => h \in DOMAIN q.pages
    BY <1>1, <1>2, PcbFacts
  <1>4. \A h \in DOMAIN q.pages :
          q.pages[h].pc = IF Ran(q) <= 3 * h THEN 0
                          ELSE IF 3 * h + 3 <= Ran(q) THEN 3 ELSE Ran(q) - 3 * h
    BY <1>1 DEF PcbPlain
  <1>5. 3 * i <= Ran(q)
    <2>1. CASE i = 0
      BY <1>3, <2>1
    <2>2. CASE i # 0
      <3>1. i - 1 \in Nat /\ i - 1 \in 0 .. i - 1 /\ 3 * (i - 1) < Size(q)
        BY <1>3, <2>2
      <3>2. q.pages[i - 1].pc = 3 /\ i - 1 \in DOMAIN q.pages
        BY <1>2, <1>3, <3>1
      <3>3. 3 * (i - 1) + 3 <= Ran(q)
        BY <1>3, <1>4, <3>1, <3>2
      <3>4. QED
        BY <1>3, <3>3
    <2>3. QED
      BY <2>1, <2>2
  <1>6. Ran(q) < 3 * i + 3
    BY <1>2, <1>3, <1>4
  <1>7. QED
    BY <1>1, <1>2, <1>3, <1>4, <1>5, <1>6 DEF At

(* A process is in order after it ran the line it was at. *)
LEMMA AdvancedPlain ==
  ASSUME NEW p \in DOMAIN pcbs, NEW q, q = pcbs[p], q \in PcbType, PcbPlain(q), q.size > 0,
         NEW i \in DOMAIN q.pages, At(q, i), 3 * i < q.fpos,
         NEW new, new = Advanced(p, i)
  PROVE  /\ PcbPlain(new) /\ Size(new) = Size(q) /\ Ran(new) = Ran(q) + 1
  <1>1. /\ new.script = q.script /\ new.size = q.size - 1 /\ new.fpos = q.fpos
        /\ DOMAIN new.pages = DOMAIN q.pages
        /\ \A h \in DOMAIN q.pages : h # i => new.pages[h] = q.pages[h]
        /\ new.pages[i].pc = q.pages[i].pc + 1
    BY AdvancedIs
  <1>2. /\ Size(q) \in Nat \ {0} /\ q.size \in Nat \ {0} /\ q.fpos \in Nat /\ Ran(q) \in Nat
        /\ Ran(q) = Size(q) - q.size /\ \A h \in DOMAIN q.pages : h \in Nat
    BY PcbFacts
  <1>3. Size(new) = Size(q)
    BY <1>1 DEF Size
  <1>4. Ran(new) = Ran(q) + 1 /\ new.size <= Size(q)
    BY <1>1, <1>2, <1>3 DEF Ran
  <1>5. 3 * i <= Ran(q) /\ Ran(q) < 3 * i + 3
    BY DEF At
  <1>6. Ran(new) <= new.fpos
    <2>1. q.fpos = Size(q) \/ 3 * i + 3 <= q.fpos
      BY DEF PcbPlain
    <2>2. QED
      BY <1>1, <1>2, <1>4, <1>5, <2>1
  <1>7. ASSUME NEW h \in DOMAIN new.pages
        PROVE  /\ 3 * h < new.fpos => /\ new.fpos = Size(new) \/ 3 * h + 3 <= new.fpos
                                      /\ h <= 1 \/ 3 * h <= Ran(new)
               /\ new.pages[h].pc = IF Ran(new) <= 3 * h THEN 0
                                    ELSE IF 3 * h + 3 <= Ran(new) THEN 3 ELSE Ran(new) - 3 * h
    <2>1. /\ 3 * h < q.fpos => /\ q.fpos = Size(q) \/ 3 * h + 3 <= q.fpos
                               /\ h <= 1 \/ 3 * h <= Ran(q)
          /\ q.pages[h].pc = IF Ran(q) <= 3 * h THEN 0
                             ELSE IF 3 * h + 3 <= Ran(q) THEN 3 ELSE Ran(q) - 3 * h
          /\ h \in Nat /\ i \in Nat
      BY <1>1, <1>2, <1>7 DEF PcbPlain
    <2>2. CASE h = i
      BY <1>1, <1>2, <1>3, <1>4, <1>5, <2>1, <2>2
    <2>3. CASE h # i
      <3>1. new.pages[h].pc = q.pages[h].pc
        BY <1>1, <1>7, <2>3
      <3>2. QED
        BY <1>1, <1>2, <1>3, <1>4, <1>5, <2>1, <2>3, <3>1
    <2>4. QED
      BY <2>2, <2>3
  <1>8. QED
    BY <1>1, <1>3, <1>4, <1>6, <1>7 DEF PcbPlain

(* A process is in order after load_PAGE read its next page. *)
LEMMA LoadedPlain ==
  ASSUME NEW q, q \in PcbType, PcbPlain(q), NEW i \in DOMAIN q.pages,
         q.fpos = 3 * i, i <= 1 \/ 3 * i <= Ran(q), NEW k, NEW new, new = LoadedPcb(q, i, k)
  PROVE  /\ PcbPlain(new) /\ Size(new) = Size(q) /\ Ran(new) = Ran(q)
         /\ new.fpos \in Nat /\ (new.fpos = Size(q) \/ new.fpos = 3 * i + 3)
         /\ 3 * i < new.fpos /\ new.fpos <= 3 * i + 3
  <1>1. /\ new.script = q.script /\ new.size = q.size
        /\ new.fpos = IF Reads(q, 2) THEN q.fpos + 3 ELSE Size(q)
        /\ DOMAIN new.pages = DOMAIN q.pages
        /\ \A h \in DOMAIN q.pages : new.pages[h].pc = q.pages[h].pc
    <2>1. /\ new.script = q.script /\ new.size = q.size
          /\ new.fpos = IF Reads(q, 2) THEN q.fpos + 3 ELSE Size(q)
          /\ DOMAIN new.pages = DOMAIN q.pages
          /\ (\A h \in DOMAIN q.pages : h # i => new.pages[h] = q.pages[h])
          /\ new.pages[i].pc = q.pages[i].pc
      BY LoadedIs
    <2>2. ASSUME NEW h \in DOMAIN q.pages PROVE new.pages[h].pc = q.pages[h].pc
      <3>1. CASE h = i
        BY <2>1, <3>1, Zenon
      <3>2. CASE h # i
        BY <2>1, <2>2, <3>2, Zenon
      <3>3. QED
        BY <3>1, <3>2
    <2>3. QED
      BY <2>1, <2>2
  <1>2. /\ Size(q) \in Nat \ {0} /\ q.size \in Nat /\ q.fpos \in Nat /\ Ran(q) \in Nat
        /\ \A h \in DOMAIN q.pages : h \in Nat /\ 3 * h < Size(q)
    BY PcbFacts
  <1>3. Size(new) = Size(q) /\ Ran(new) = Ran(q)
    BY <1>1 DEF Size, Ran
  <1>4. Reads(q, 2) <=> 3 * i + 3 <= Size(q)
    BY <1>2 DEF Reads, Size
  <1>5. /\ new.fpos \in Nat /\ (new.fpos = Size(q) \/ new.fpos = 3 * i + 3)
        /\ 3 * i < new.fpos /\ new.fpos <= 3 * i + 3 /\ new.fpos <= Size(q)
    BY <1>1, <1>2, <1>4
  <1>6. ASSUME NEW h \in DOMAIN new.pages
        PROVE  /\ 3 * h < new.fpos => /\ new.fpos = Size(new) \/ 3 * h + 3 <= new.fpos
                                      /\ h <= 1 \/ 3 * h <= Ran(new)
               /\ new.pages[h].pc = IF Ran(new) <= 3 * h THEN 0
                                    ELSE IF 3 * h + 3 <= Ran(new) THEN 3 ELSE Ran(new) - 3 * h
    <2>1. /\ 3 * h < q.fpos => /\ q.fpos = Size(q) \/ 3 * h + 3 <= q.fpos
                               /\ h <= 1 \/ 3 * h <= Ran(q)
          /\ new.pages[h].pc = IF Ran(q) <= 3 * h THEN 0
                               ELSE IF 3 * h + 3 <= Ran(q) THEN 3 ELSE Ran(q) - 3 * h
          /\ h \in Nat /\ i \in Nat
      BY <1>1, <1>2, <1>6 DEF PcbPlain
    <2>2. QED
      BY <1>2, <1>3, <1>5, <2>1
  <1>7. new.size <= Size(q) /\ Ran(q) <= q.fpos
    BY <1>1 DEF PcbPlain
  <1>8. QED
    BY <1>1, <1>2, <1>3, <1>5, <1>6, <1>7 DEF PcbPlain

(* A process is in order after it lost a page it was done with. *)
LEMMA EvictedPlain ==
  ASSUME NEW q, q \in PcbType, PcbPlain(q), NEW i \in DOMAIN q.pages,
         NEW new, new = EvictedPcb(q, i)
  PROVE  PcbPlain(new) /\ Size(new) = Size(q) /\ Ran(new) = Ran(q)
  <1>1. /\ new.script = q.script /\ new.size = q.size /\ new.fpos = q.fpos
        /\ DOMAIN new.pages = DOMAIN q.pages
        /\ \A h \in DOMAIN q.pages : new.pages[h].pc = q.pages[h].pc
    <2>1. /\ new.script = q.script /\ new.size = q.size /\ new.fpos = q.fpos
          /\ DOMAIN new.pages = DOMAIN q.pages
          /\ (\A h \in DOMAIN q.pages : h # i => new.pages[h] = q.pages[h])
          /\ new.pages[i].pc = q.pages[i].pc
      BY EvictedIs
    <2>2. ASSUME NEW h \in DOMAIN q.pages PROVE new.pages[h].pc = q.pages[h].pc
      <3>1. CASE h = i
        BY <2>1, <3>1, Zenon
      <3>2. CASE h # i
        BY <2>1, <2>2, <3>2, Zenon
      <3>3. QED
        BY <3>1, <3>2
    <2>3. QED
      BY <2>1, <2>2
  <1>2. Size(new) = Size(q) /\ Ran(new) = Ran(q)
    BY <1>1 DEF Size, Ran
  <1>3. QED
    BY <1>1, <1>2 DEF PcbPlain

(* A resident page stays one when its lines and its entries stay. *)
LEMMA HereSame ==
  ASSUME NEW m, NEW p, NEW q, NEW i, NEW S, PageHere(m, p, q, i, S), NEW m2, NEW q2,
         q2.pages[i].index = q.pages[i].index, q2.pages[i].valid = q.pages[i].valid,
         Size(q2) = Size(q), 3 * i < q2.fpos,
         \A j \in Offset : m2[q.pages[i].index[j]] = m[q.pages[i].index[j]]
  PROVE  PageHere(m2, p, q2, i, S)
  <1>1. ASSUME NEW j \in Offset
        PROVE  /\ q2.pages[i].index[j] = q2.pages[i].index[0] + j
               /\ q2.pages[i].valid[j] <=> 3 * i + j < Size(q2)
               /\ m2[q2.pages[i].index[j]].var = p
               /\ 3 * i + j < Size(q2) => m2[q2.pages[i].index[j]].value = <<p, 3 * i + j + 1>>
    <2>1. /\ q.pages[i].index[j] = q.pages[i].index[0] + j
          /\ q.pages[i].valid[j] <=> 3 * i + j < Size(q)
          /\ m[q.pages[i].index[j]].var = p
          /\ 3 * i + j < Size(q) => m[q.pages[i].index[j]].value = <<p, 3 * i + j + 1>>
      BY <1>1, Zenon DEF PageHere
    <2>2. m2[q2.pages[i].index[j]] = m[q.pages[i].index[j]]
      BY <1>1, Zenon
    <2>3. QED
      BY <2>1, <2>2, Zenon
  <1>2. q2.pages[i].index[0] \in S
    BY Zenon DEF PageHere
  <1>3. QED
    BY <1>1, <1>2, Zenon DEF PageHere

(* ps2 is ps with the data new for process p. *)
Becomes(ps, p, new, ps2) ==
  /\ DOMAIN ps2 = DOMAIN ps /\ ps2[p] = new
  /\ \A r \in DOMAIN ps \ {p} : ps2[r] = ps[r]

SamePages(q, new) ==
  /\ DOMAIN new.pages = DOMAIN q.pages
  /\ \A h \in DOMAIN q.pages :
       new.pages[h].index = q.pages[h].index /\ new.pages[h].valid = q.pages[h].valid

(* A line that ran leaves the frames and the list as they are. *)
LEMMA AdvanceFrames ==
  ASSUME NEW m, NEW ps, NEW S, FramesPlain(m, ps, S), NEW p \in DOMAIN ps,
         NEW q, q = ps[p], q \in PcbType, q.size > 0,
         NEW new, PcbPlain(new), SamePages(q, new), Size(new) = Size(q), new.fpos = q.fpos,
         Ran(new) = Ran(q) + 1, NEW ps2, Becomes(ps, p, new, ps2)
  PROVE  /\ FramesPlain(m, ps2, S) /\ Base(ps2) = Base(ps)
         /\ \A list : ListPlain(ps, list) => ListPlain(ps2, list)
  <1>1. /\ DOMAIN ps2 = DOMAIN ps /\ ps2[p] = new
        /\ \A r \in DOMAIN ps : r # p => ps2[r] = ps[r]
    BY DEF Becomes
  <1>2. ASSUME NEW r \in DOMAIN ps
        PROVE  /\ DOMAIN ps2[r].pages = DOMAIN ps[r].pages
               /\ \A h \in DOMAIN ps[r].pages :
                    /\ ps2[r].pages[h].index = ps[r].pages[h].index
                    /\ ps2[r].pages[h].valid = ps[r].pages[h].valid
    <2>1. CASE r = p
      BY <1>1, <2>1, Zenon DEF SamePages
    <2>2. CASE r # p
      BY <1>1, <1>2, <2>2, Zenon
    <2>3. QED
      BY <2>1, <2>2
  <1>3. Lost(m, ps2) = Lost(m, ps)
    BY <1>1, Zenon DEF Lost
  <1>4. ASSUME NEW r \in DOMAIN ps2
        PROVE  /\ PcbPlain(ps2[r])
               /\ \A h \in DOMAIN ps2[r].pages : PageHere(m, r, ps2[r], h, S) \/ PageAway(ps2[r], h)
    <2>1. CASE r = p
      <3>1. PcbPlain(q) /\ \A h \in DOMAIN q.pages : PageHere(m, p, q, h, S) \/ PageAway(q, h)
        BY Zenon DEF FramesPlain, PagesPlain
      <3>2. Ran(q) \in Nat /\ q.size \in Nat /\ \A h \in DOMAIN q.pages : h \in Nat
        BY <3>1, PcbFacts
      <3>3. ASSUME NEW h \in DOMAIN new.pages PROVE PageHere(m, p, new, h, S) \/ PageAway(new, h)
        <4>1. /\ h \in DOMAIN q.pages
              /\ new.pages[h].index = q.pages[h].index /\ new.pages[h].valid = q.pages[h].valid
          BY <3>3, Zenon DEF SamePages
        <4>2. CASE PageHere(m, p, q, h, S)
          <5>1. 3 * h < new.fpos
            BY <4>2 DEF PageHere
          <5>2. QED
            BY <4>1, <4>2, <5>1, HereSame
        <4>3. CASE PageAway(q, h)
          <5>1. 3 * h < new.fpos => 3 * h + 3 <= Ran(new)
            BY <3>2, <4>1, <4>3 DEF PageAway
          <5>2. \A j \in Offset : ~new.pages[h].valid[j]
            BY <4>1, <4>3, Zenon DEF PageAway
          <5>3. QED
            BY <5>1, <5>2 DEF PageAway
        <4>4. QED
          BY <3>1, <4>1, <4>2, <4>3
      <3>4. QED
        BY <1>1, <2>1, <3>3, Zenon
    <2>2. CASE r # p
      BY <1>1, <1>4, <2>2, Zenon DEF FramesPlain, PagesPlain
    <2>3. QED
      BY <2>1, <2>2
  <1>5. PagesPlain(m, ps2, S)
    BY <1>4, Zenon DEF PagesPlain
  <1>6. OwnedPlain(m, ps2)
    <2>1. SUFFICES ASSUME NEW x \in Frames, m[x].var \in DOMAIN ps
          PROVE  \E i \in DOMAIN ps2[m[x].var].pages :
                   Here(ps2[m[x].var], i) /\ x \in Three(ps2[m[x].var].pages[i].index[0])
      BY <1>1 DEF OwnedPlain
    <2>2. PICK i \in DOMAIN ps[m[x].var].pages :
            Here(ps[m[x].var], i) /\ x \in Three(ps[m[x].var].pages[i].index[0])
      BY <2>1, Zenon DEF FramesPlain, OwnedPlain
    <2>3. QED
      BY <1>2, <2>1, <2>2, Zenon DEF Here
  <1>7. ASSUME NEW list, ListPlain(ps, list) PROVE ListPlain(ps2, list)
    <2>1. ASSUME NEW r \in DOMAIN ps2, NEW i \in DOMAIN ps2[r].pages
          PROVE  Here(ps2[r], i) <=> In(<<r, i>>, list)
      <3>1. /\ r \in DOMAIN ps /\ i \in DOMAIN ps[r].pages
            /\ ps2[r].pages[i].valid = ps[r].pages[i].valid
        BY <1>1, <1>2, <2>1, Zenon
      <3>2. Here(ps[r], i) <=> In(<<r, i>>, list)
        BY <1>7, <3>1, Zenon DEF ListPlain
      <3>3. QED
        BY <3>1, <3>2, Zenon DEF Here
    <2>2. QED
      BY <1>7, <2>1, Zenon DEF ListPlain
  <1>8. Base(ps2) = Base(ps)
    BY <1>1, <1>2, Zenon DEF Base
  <1>9. QED
    BY <1>1, <1>3, <1>5, <1>6, <1>7, <1>8, Zenon DEF FramesPlain

(* load_PAGE puts the lines of the page into a place that was free. *)
LEMMA LoadedElsewhere ==
  ASSUME NEW m, NEW p, NEW q, NEW k, NEW new, new = LoadedMem(m, p, q, k)
  PROVE  \A x \in Position : x \notin Three(k) => new[x] = m[x]
  BY Zenon DEF LoadedMem, Three

(* The owners of lines after a load. *)
LEMMA LoadedVar ==
  ASSUME NEW m, NEW p, NEW q, NEW k, NEW new, new = LoadedMem(m, p, q, k)
  PROVE  \A x \in Position : x \in Three(k) => new[x].var = p
  BY DEF LoadedMem, Three

(* The lines of an evicted page become free, and no others. *)
LEMMA EvictedMemIs ==
  ASSUME NEW m, MemOK(m), NEW page, NEW k \in 0 .. FrameStoreSize - 3,
         \A j \in Offset : page.index[j] = k + j,
         NEW new, new = EvictedMem(m, page)
  PROVE  \A x \in Position : /\ x \in Three(k) => new[x] = FreeLine
                             /\ x \notin Three(k) => new[x] = m[x]
  <1>. TAKE x \in Position
  <1>1. new[x] = IF \E j \in Offset : page.index[j] = x THEN FreeLine ELSE m[x]
    BY DEF EvictedMem
  <1>2. (\E j \in Offset : page.index[j] = x) <=> x \in Three(k)
    <2>1. ASSUME NEW j \in Offset, page.index[j] = x PROVE x \in Three(k)
      <3>1. x = k + j /\ j \in 0 .. 2
        BY <2>1 DEF Offset
      <3>2. QED
        BY <3>1 DEF Three
    <2>2. ASSUME x \in Three(k) PROVE \E j \in Offset : page.index[j] = x
      <3>1. x \in k .. k + 2
        BY <2>2 DEF Three
      <3>2. x - k \in Offset /\ k + (x - k) = x
        BY <3>1 DEF Offset
      <3>3. page.index[x - k] = x
        BY <3>2
      <3>4. QED
        BY <3>2, <3>3
    <2>3. QED
      BY <2>1, <2>2
  <1>3. QED
    BY <1>1, <1>2

LoadedAt(m, ps, p, i, k, m2, ps2) ==
  m2 = LoadedMem(m, p, ps[p], k) /\ Becomes(ps, p, LoadedPcb(ps[p], i, k), ps2)

(* The resident pages before and after a load and an eviction. *)
Pages(ps, ps2) ==
  DOMAIN ps2 = DOMAIN ps /\ \A r \in DOMAIN ps : DOMAIN ps2[r].pages = DOMAIN ps[r].pages

NowHere(ps, p, i, ps2) ==
  /\ Pages(ps, ps2) /\ ~Here(ps[p], i)
  /\ \A r \in DOMAIN ps2 : \A h \in DOMAIN ps2[r].pages :
       Here(ps2[r], h) <=> (r = p /\ h = i) \/ Here(ps[r], h)

NowAway(ps, p, i, ps2) ==
  /\ Pages(ps, ps2)
  /\ \A r \in DOMAIN ps2 : \A h \in DOMAIN ps2[r].pages :
       Here(ps2[r], h) <=> Here(ps[r], h) /\ ~(r = p /\ h = i)

(* The page tables and the frames agree after a load. *)
LEMMA LoadFrames ==
  ASSUME NEW m, MemOK(m), NEW ps, NEW S, FramesPlain(m, ps, S), NEW p \in DOMAIN ps,
         NEW q, q = ps[p], q \in PcbType, NEW i \in DOMAIN q.pages,
         q.fpos = 3 * i, i <= 1 \/ 3 * i <= Ran(q), NEW k, FirstFit(m, k),
         NEW m2, NEW ps2, LoadedAt(m, ps, p, i, k, m2, ps2)
  PROVE  FramesPlain(m2, ps2, S) /\ NowHere(ps, p, i, ps2)
  <1>. PICK new : new = LoadedPcb(q, i, k)
    OBVIOUS
  <1>0. m2 = LoadedMem(m, p, q, k) /\ Becomes(ps, p, new, ps2)
    BY DEF LoadedAt
  <1>1. /\ DOMAIN ps2 = DOMAIN ps /\ ps2[p] = new
        /\ \A r \in DOMAIN ps : r # p => ps2[r] = ps[r]
    BY <1>0 DEF Becomes
  <1>2. PcbPlain(q) /\ \A h \in DOMAIN q.pages : PageHere(m, p, q, h, S) \/ PageAway(q, h)
    BY Zenon DEF FramesPlain, PagesPlain
  <1>3. /\ Ran(q) \in Nat /\ q.size \in Nat /\ q.fpos \in Nat /\ Size(q) \in Nat
        /\ \A h \in DOMAIN q.pages : h \in Nat /\ 3 * h < Size(q)
    BY <1>2, PcbFacts
  <1>4. /\ k \in S /\ k \in 0 .. FrameStoreSize - 3 /\ \A x \in Three(k) : m[x].var = None
    BY FirstFitIs
  <1>5. /\ PcbPlain(new) /\ Size(new) = Size(q) /\ Ran(new) = Ran(q)
        /\ 3 * i < new.fpos /\ new.fpos <= 3 * i + 3 /\ new.fpos \in Nat
    BY <1>2, LoadedPlain
  <1>6. /\ new.size = q.size /\ DOMAIN new.pages = DOMAIN q.pages
        /\ \A h \in DOMAIN q.pages : h # i => new.pages[h] = q.pages[h]
        /\ \A j \in Offset : new.pages[i].index[j] = k + j
        /\ \A j \in Offset : new.pages[i].valid[j] <=> Reads(q, j)
    BY LoadedIs
  <1>7. ~PageHere(m, p, q, i, S) /\ PageAway(q, i)
    <2>1. ~PageHere(m, p, q, i, S)
      <3>1. ~(3 * i < q.fpos)
        BY <1>3
      <3>2. QED
        BY <3>1, Zenon DEF PageHere
    <2>2. QED
      BY <1>2, <2>1
  <1>8. ~Here(q, i)
    BY <1>7 DEF PageAway, Here, Offset
  <1>9. /\ Three(k) \subseteq Frames /\ Frames \subseteq Position
        /\ \A j \in Offset : k + j \in Three(k)
    BY <1>4, KernelAssumption DEF Three, Frames, Position, Offset
  <1>10. \A x \in Position :
           /\ x \in Three(k) => m2[x].var = p
           /\ x \notin Three(k) => m2[x] = m[x]
    BY <1>0, LoadedElsewhere, LoadedVar
  <1>11. ASSUME NEW j \in Offset, Reads(q, j) PROVE m2[k + j].value = <<p, q.fpos + j + 1>>
    <2>1. PICK y : y = k + j
      OBVIOUS
    <2>2. y \in Position
      BY <1>9, <2>1
    <2>3. y \in k .. k + 2 /\ y - k = j
      BY <1>4, <2>1 DEF Offset
    <2>4. m2[y] = [var |-> p,
                   value |-> IF Reads(q, y - k) THEN <<p, q.fpos + y - k + 1>> ELSE m[y].value]
      BY <1>0, <2>2, <2>3 DEF LoadedMem
    <2>5. m2[y].value = <<p, q.fpos + y - k + 1>>
      BY <1>11, <2>3, <2>4
    <2>6. q.fpos + y - k + 1 = q.fpos + j + 1
      BY <1>3, <1>4, <2>1 DEF Offset
    <2>7. QED
      BY <2>1, <2>5, <2>6
  <1>12. p # None
    BY DEF FramesPlain
  <1>13. Lost(m2, ps2) = Lost(m, ps)
    <2>1. ASSUME NEW x \in Frames
          PROVE  m2[x].var # None /\ m2[x].var \notin DOMAIN ps
                   <=> m[x].var # None /\ m[x].var \notin DOMAIN ps
      <3>1. CASE x \in Three(k)
        BY <1>4, <1>9, <1>10, <2>1, <3>1
      <3>2. CASE x \notin Three(k)
        BY <1>9, <1>10, <2>1, <3>2
      <3>3. QED
        BY <3>1, <3>2
    <2>2. QED
      BY <1>1, <2>1, Zenon DEF Lost
  <1>14. PageHere(m2, p, new, i, S)
    <2>1. 0 \in Offset /\ new.pages[i].index[0] = k
      BY <1>4, <1>6 DEF Offset
    <2>2. ASSUME NEW j \in Offset
          PROVE  /\ new.pages[i].index[j] = new.pages[i].index[0] + j
                 /\ new.pages[i].valid[j] <=> 3 * i + j < Size(new)
                 /\ m2[new.pages[i].index[j]].var = p
                 /\ 3 * i + j < Size(new) => m2[new.pages[i].index[j]].value = <<p, 3 * i + j + 1>>
      <3>1. new.pages[i].index[j] = k + j /\ (new.pages[i].valid[j] <=> Reads(q, j))
        BY <1>6, <2>2
      <3>2. Reads(q, j) <=> 3 * i + j < Size(q)
        BY <1>3, <2>2 DEF Reads, Size, Offset
      <3>3. m2[k + j].var = p
        BY <1>9, <1>10, <2>2
      <3>4. Reads(q, j) => m2[k + j].value = <<p, 3 * i + j + 1>>
        BY <1>11, <2>2
      <3>5. QED
        BY <1>5, <2>1, <3>1, <3>2, <3>3, <3>4
    <2>3. QED
      <3>1. new.pages[i].index[0] \in S
        BY <1>4, <2>1, Zenon
      <3>2. QED
        BY <1>5, <2>2, <3>1, Zenon DEF PageHere
  <1>15. ASSUME NEW r \in DOMAIN ps, NEW h \in DOMAIN ps[r].pages, PageHere(m, r, ps[r], h, S),
                NEW j \in Offset
         PROVE  m2[ps[r].pages[h].index[j]] = m[ps[r].pages[h].index[j]]
    <2>1. PICK x : x = ps[r].pages[h].index[j]
      OBVIOUS
    <2>2. /\ ps[r].pages[h].index[0] \in S /\ x = ps[r].pages[h].index[0] + j /\ m[x].var = r
      BY <1>15, <2>1, Zenon DEF PageHere
    <2>3. S \subseteq 0 .. FrameStoreSize - 3
      BY StartsType DEF FramesPlain
    <2>4. x \in Frames
      <3>1. PICK y : y = ps[r].pages[h].index[0]
        OBVIOUS
      <3>2. y \in 0 .. FrameStoreSize - 3 /\ x = y + j
        BY <2>2, <2>3, <3>1
      <3>3. QED
        BY <3>2, KernelAssumption DEF Frames, Offset
    <2>5. r # None
      BY DEF FramesPlain
    <2>6. x \notin Three(k)
      BY <1>4, <2>2, <2>5
    <2>7. QED
      BY <1>9, <1>10, <2>1, <2>4, <2>6
  <1>16. ASSUME NEW r \in DOMAIN ps2
         PROVE  /\ PcbPlain(ps2[r])
                /\ \A h \in DOMAIN ps2[r].pages :
                     PageHere(m2, r, ps2[r], h, S) \/ PageAway(ps2[r], h)
    <2>1. CASE r = p
      <3>1. ASSUME NEW h \in DOMAIN new.pages, h # i
            PROVE  PageHere(m2, p, new, h, S) \/ PageAway(new, h)
        <4>1. h \in DOMAIN q.pages /\ new.pages[h] = q.pages[h]
          BY <1>6, <3>1
        <4>2. CASE PageHere(m, p, q, h, S)
          <5>1. 3 * h < new.fpos
            <6>1. 3 * h < q.fpos
              BY <4>2, Zenon DEF PageHere
            <6>2. h \in Nat
              BY <1>3, <4>1
            <6>3. QED
              BY <1>3, <1>5, <6>1, <6>2
          <5>2. \A j \in Offset : m2[q.pages[h].index[j]] = m[q.pages[h].index[j]]
            BY <1>15, <4>1, <4>2
          <5>3. QED
            BY <1>5, <4>1, <4>2, <5>1, <5>2, HereSame
        <4>3. CASE PageAway(q, h)
          <5>1. 3 * h < q.fpos => 3 * h + 3 <= Ran(q) \/ q.size = 0
            BY <4>3 DEF PageAway
          <5>2. 3 * h < new.fpos => 3 * h < q.fpos
            BY <1>3, <1>5, <3>1, <4>1
          <5>3. 3 * h < new.fpos => 3 * h + 3 <= Ran(new) \/ new.size = 0
            BY <1>5, <1>6, <5>1, <5>2
          <5>4. QED
            BY <4>1, <4>3, <5>3 DEF PageAway
        <4>4. QED
          BY <1>2, <4>1, <4>2, <4>3
      <3>2. QED
        BY <1>1, <1>5, <1>14, <2>1, <3>1, Zenon
    <2>2. CASE r # p
      <3>1. r \in DOMAIN ps /\ ps2[r] = ps[r]
        BY <1>1, <1>16, <2>2
      <3>2. ASSUME NEW h \in DOMAIN ps[r].pages, PageHere(m, r, ps[r], h, S)
            PROVE  PageHere(m2, r, ps[r], h, S)
        <4>1. \A j \in Offset : m2[ps[r].pages[h].index[j]] = m[ps[r].pages[h].index[j]]
          BY <1>15, <3>1, <3>2
        <4>2. PICK t : t = ps[r]
          OBVIOUS
        <4>3. /\ PageHere(m, r, t, h, S) /\ 3 * h < t.fpos
              /\ \A j \in Offset : m2[t.pages[h].index[j]] = m[t.pages[h].index[j]]
          BY <3>2, <4>1, <4>2, Zenon DEF PageHere
        <4>4. PageHere(m2, r, t, h, S)
          BY <4>3, HereSame
        <4>5. QED
          BY <4>2, <4>4
      <3>3. QED
        BY <3>1, <3>2, Zenon DEF FramesPlain, PagesPlain
    <2>3. QED
      BY <2>1, <2>2
  <1>17. PagesPlain(m2, ps2, S)
    BY <1>16, Zenon DEF PagesPlain
  <1>18. Here(new, i)
    <2>1. 0 \in Offset
      BY DEF Offset
    <2>2. 3 * i + 0 < Size(new)
      BY <1>3, <1>5
    <2>3. QED
      BY <1>14, <2>1, <2>2, Zenon DEF Here, PageHere
  <1>19. ASSUME NEW r \in DOMAIN ps2, NEW h \in DOMAIN ps2[r].pages
         PROVE  Here(ps2[r], h) <=> (r = p /\ h = i) \/ Here(ps[r], h)
    <2>1. CASE r = p /\ h = i
      BY <1>1, <1>18, <2>1
    <2>2. CASE r = p /\ h # i
      <3>1. new.pages[h] = q.pages[h]
        BY <1>1, <1>6, <1>19, <2>2
      <3>2. QED
        BY <1>1, <2>2, <3>1, Zenon DEF Here
    <2>3. CASE r # p
      BY <1>1, <1>19, <2>3, Zenon
    <2>4. QED
      BY <2>1, <2>2, <2>3
  <1>20. OwnedPlain(m2, ps2)
    <2>1. ASSUME NEW x \in Frames, NEW r, r = m2[x].var, r \in DOMAIN ps2
          PROVE  \E h \in DOMAIN ps2[r].pages : Here(ps2[r], h) /\ x \in Three(ps2[r].pages[h].index[0])
      <3>1. CASE x \in Three(k)
        <4>1. r = p
          BY <1>9, <1>10, <2>1, <3>1
        <4>2. i \in DOMAIN new.pages /\ Here(new, i) /\ x \in Three(new.pages[i].index[0])
          <5>1. new.pages[i].index[0] = k
            BY <1>4, <1>6 DEF Offset
          <5>2. QED
            BY <1>6, <1>18, <3>1, <5>1
        <4>3. QED
          BY <1>1, <4>1, <4>2, Zenon
      <3>2. CASE x \notin Three(k)
        <4>1. m[x].var = r /\ r \in DOMAIN ps
          BY <1>1, <1>9, <1>10, <2>1, <3>2
        <4>2. PICK h \in DOMAIN ps[r].pages : Here(ps[r], h) /\ x \in Three(ps[r].pages[h].index[0])
          BY <2>1, <4>1, Zenon DEF FramesPlain, OwnedPlain
        <4>3. h \in DOMAIN ps2[r].pages /\ ps2[r].pages[h] = ps[r].pages[h]
          <5>1. CASE r = p
            <6>1. h # i
              BY <1>8, <4>2, <5>1
            <6>2. QED
              BY <1>1, <1>6, <4>2, <5>1, <6>1
          <5>2. CASE r # p
            BY <1>1, <4>1, <4>2, <5>2, Zenon
          <5>3. QED
            BY <5>1, <5>2
        <4>4. Here(ps2[r], h)
          BY <4>2, <4>3, Zenon DEF Here
        <4>5. QED
          BY <4>2, <4>3, <4>4, Zenon
      <3>3. QED
        BY <3>1, <3>2
    <2>2. QED
      BY <2>1, Zenon DEF OwnedPlain
  <1>21. Pages(ps, ps2)
    BY <1>1, <1>6, Zenon DEF Pages
  <1>22. QED
    BY <1>1, <1>8, <1>13, <1>17, <1>19, <1>20, <1>21, Zenon DEF FramesPlain, NowHere

(* ... and the page enters the list. *)
Pushed(p, i, list) ==
  /\ ~In(<<p, i>>, list)
  /\ \A c, d : Ahead(<<<<p, i>>>> \o list, c, d) =>
               (c = <<p, i>> /\ In(d, list)) \/ Ahead(list, c, d)

(* The list is exact after the loaded page was put at its head. *)
LEMMA LoadList ==
  ASSUME NEW ps, NEW list, ListOK(ps, list), ListPlain(ps, list), NEW ps2,
         NEW p \in DOMAIN ps, NEW i \in DOMAIN ps[p].pages, p \in Pid, i \in Nat,
         NowHere(ps, p, i, ps2)
  PROVE  /\ ListPlain(ps2, <<<<p, i>>>> \o list) /\ Pushed(p, i, list)
  <1>. PICK list2 : list2 = <<<<p, i>>>> \o list
    OBVIOUS
  <1>0. /\ DOMAIN ps2 = DOMAIN ps /\ ~Here(ps[p], i)
        /\ \A r \in DOMAIN ps : DOMAIN ps2[r].pages = DOMAIN ps[r].pages
        /\ \A r \in DOMAIN ps2 : \A h \in DOMAIN ps2[r].pages :
             Here(ps2[r], h) <=> (r = p /\ h = i) \/ Here(ps[r], h)
    BY Zenon DEF NowHere, Pages
  <1>1. list \in Seq(Pid \X Nat) /\ <<p, i>> \in Pid \X Nat
    BY DEF ListOK
  <1>2. ~In(<<p, i>>, list) /\ Distinct(list)
    BY <1>0, Zenon DEF ListPlain
  <1>3. /\ Distinct(list2)
        /\ \A c, d : Ahead(list2, c, d) => (c = <<p, i>> /\ In(d, list)) \/ Ahead(list, c, d)
    BY <1>1, <1>2, AheadPush
  <1>4. \A d : In(d, list2) <=> d = <<p, i>> \/ In(d, list)
    BY <1>1, InPush
  <1>5. ASSUME NEW r \in DOMAIN ps2, NEW h \in DOMAIN ps2[r].pages
        PROVE  Here(ps2[r], h) <=> In(<<r, h>>, list2)
    <2>1. Here(ps[r], h) <=> In(<<r, h>>, list)
      BY <1>0, <1>5, Zenon DEF ListPlain
    <2>2. <<r, h>> = <<p, i>> <=> r = p /\ h = i
      OBVIOUS
    <2>3. QED
      BY <1>0, <1>4, <1>5, <2>1, <2>2, Zenon
  <1>6. ListPlain(ps2, list2)
    BY <1>3, <1>5, Zenon DEF ListPlain
  <1>7. Pushed(p, i, list)
    BY <1>2, <1>3, Zenon DEF Pushed
  <1>8. QED
    BY <1>6, <1>7

(* PAGE_evict gives the place of the page back. *)
EvictedFrom(m, ps, p, i, m2, ps2) ==
  m2 = EvictedMem(m, ps[p].pages[i]) /\ Becomes(ps, p, EvictedPcb(ps[p], i), ps2)

(* The page tables and the frames agree after the eviction of a page that  *)
(* is done.                                                                *)
LEMMA EvictFrames ==
  ASSUME NEW m, MemOK(m), NEW ps, NEW S, FramesPlain(m, ps, S), NEW p \in DOMAIN ps,
         NEW q, q = ps[p], q \in PcbType, NEW i \in DOMAIN q.pages, Here(q, i),
         3 * i + 3 <= Ran(q) \/ q.size = 0,
         NEW m2, NEW ps2, EvictedFrom(m, ps, p, i, m2, ps2)
  PROVE  FramesPlain(m2, ps2, S) /\ ~NoFrame(m2) /\ NowAway(ps, p, i, ps2)
  <1>. PICK new : new = EvictedPcb(q, i)
    OBVIOUS
  <1>0. m2 = EvictedMem(m, q.pages[i]) /\ Becomes(ps, p, new, ps2)
    BY DEF EvictedFrom
  <1>1. /\ DOMAIN ps2 = DOMAIN ps /\ ps2[p] = new
        /\ \A r \in DOMAIN ps : r # p => ps2[r] = ps[r]
    BY <1>0 DEF Becomes
  <1>2. PcbPlain(q) /\ \A h \in DOMAIN q.pages : PageHere(m, p, q, h, S) \/ PageAway(q, h)
    BY Zenon DEF FramesPlain, PagesPlain
  <1>3. PageHere(m, p, q, i, S)
    BY IsHere DEF FramesPlain
  <1>4. PICK k : k = q.pages[i].index[0]
    OBVIOUS
  <1>5. /\ k \in S /\ k \in 0 .. FrameStoreSize - 3
        /\ \A j \in Offset : q.pages[i].index[j] = k + j
    BY <1>3, <1>4, StartsType DEF FramesPlain, PageHere
  <1>6. /\ PcbPlain(new) /\ Size(new) = Size(q) /\ Ran(new) = Ran(q)
    BY <1>2, EvictedPlain
  <1>7. /\ new.size = q.size /\ new.fpos = q.fpos /\ DOMAIN new.pages = DOMAIN q.pages
        /\ \A h \in DOMAIN q.pages : h # i => new.pages[h] = q.pages[h]
        /\ \A j \in Offset : ~new.pages[i].valid[j]
    BY EvictedIs
  <1>8. /\ Three(k) \subseteq Frames /\ Frames \subseteq Position
        /\ \A j \in Offset : k + j \in Three(k)
    BY <1>5, KernelAssumption DEF Three, Frames, Position, Offset
  <1>9. \A x \in Position : /\ x \in Three(k) => m2[x] = FreeLine
                            /\ x \notin Three(k) => m2[x] = m[x]
    BY <1>0, <1>5, EvictedMemIs
  <1>10. p # None /\ FreeLine.var = None /\ None \notin DOMAIN ps
    BY DEF FramesPlain, FreeLine
  <1>11. \A x \in Three(k) : m[x].var = p
    <2>1. k \in Nat
      BY <1>5
    <2>2. QED
      BY <1>3, <1>4, <2>1, HereFrame
  <1>12. Lost(m2, ps2) = Lost(m, ps)
    <2>1. ASSUME NEW x \in Frames
          PROVE  m2[x].var # None /\ m2[x].var \notin DOMAIN ps
                   <=> m[x].var # None /\ m[x].var \notin DOMAIN ps
      <3>1. CASE x \in Three(k)
        BY <1>8, <1>9, <1>10, <1>11, <2>1, <3>1
      <3>2. CASE x \notin Three(k)
        BY <1>8, <1>9, <2>1, <3>2
      <3>3. QED
        BY <3>1, <3>2
    <2>2. QED
      BY <1>1, <2>1, Zenon DEF Lost
  <1>13. ~NoFrame(m2)
    <2>1. \A j \in Offset : m2[k + j].var = None
      BY <1>8, <1>9, <1>10
    <2>2. Fits(m2, k) /\ k \in Frames
      BY <1>5, <2>1, KernelAssumption DEF Fits, Frames
    <2>3. QED
      BY <2>2 DEF NoFrame
  <1>14. PageAway(new, i) /\ ~Here(new, i)
    BY <1>6, <1>7 DEF PageAway, Here, Offset
  <1>15. ASSUME NEW r \in DOMAIN ps, NEW h \in DOMAIN ps[r].pages, ~(r = p /\ h = i),
                PageHere(m, r, ps[r], h, S), NEW j \in Offset
         PROVE  m2[ps[r].pages[h].index[j]] = m[ps[r].pages[h].index[j]]
    <2>1. PICK y : y = ps[r].pages[h].index[0]
      OBVIOUS
    <2>2. PICK x : x = ps[r].pages[h].index[j]
      OBVIOUS
    <2>3. y \in S /\ x = y + j
      BY <1>15, <2>1, <2>2, Zenon DEF PageHere
    <2>4. y \in 0 .. FrameStoreSize - 3
      BY <2>3, StartsType DEF FramesPlain
    <2>5. x \in Three(y) /\ x \in Position
      BY <2>3, <2>4, KernelAssumption DEF Three, Offset, Position, Frames
    <2>6. Here(ps[r], h)
      <3>1. PcbPlain(ps[r]) /\ 3 * h + 0 < Size(ps[r]) /\ 0 \in Offset
        BY DEF FramesPlain, PagesPlain, PcbPlain, Offset
      <3>2. QED
        BY <1>15, <3>1 DEF PageHere, Here
    <2>7. y # k
      <3>1. SUFFICES ASSUME y = k PROVE FALSE
        OBVIOUS
      <3>2. ps[p].pages[i].index[0] = ps[r].pages[h].index[0] /\ Here(ps[p], i)
        BY <1>4, <2>1, <3>1
      <3>3. PagesPlain(m, ps, S) /\ i \in DOMAIN ps[p].pages
        BY DEF FramesPlain
      <3>4. p = r /\ i = h
        BY <2>6, <3>2, <3>3, OneFrameEach
      <3>5. QED
        BY <1>15, <3>4
    <2>8. x \notin Three(k)
      BY <1>5, <2>3, <2>5, <2>7, Tiling DEF FramesPlain
    <2>9. QED
      BY <1>9, <2>2, <2>5, <2>8
  <1>16. ASSUME NEW r \in DOMAIN ps2
         PROVE  /\ PcbPlain(ps2[r])
                /\ \A h \in DOMAIN ps2[r].pages :
                     PageHere(m2, r, ps2[r], h, S) \/ PageAway(ps2[r], h)
    <2>1. CASE r = p
      <3>1. ASSUME NEW h \in DOMAIN new.pages, h # i
            PROVE  PageHere(m2, p, new, h, S) \/ PageAway(new, h)
        <4>1. h \in DOMAIN q.pages /\ new.pages[h] = q.pages[h]
          BY <1>7, <3>1
        <4>2. CASE PageHere(m, p, q, h, S)
          <5>1. 3 * h < new.fpos
            BY <1>7, <4>2 DEF PageHere
          <5>2. \A j \in Offset : m2[q.pages[h].index[j]] = m[q.pages[h].index[j]]
            BY <1>15, <3>1, <4>1, <4>2
          <5>3. QED
            BY <1>6, <4>1, <4>2, <5>1, <5>2, HereSame
        <4>3. CASE PageAway(q, h)
          <5>1. 3 * h < new.fpos => 3 * h + 3 <= Ran(new) \/ new.size = 0
            BY <1>6, <1>7, <4>3 DEF PageAway
          <5>2. QED
            BY <4>1, <4>3, <5>1 DEF PageAway
        <4>4. QED
          BY <1>2, <4>1, <4>2, <4>3
      <3>2. QED
        BY <1>1, <1>6, <1>14, <2>1, <3>1, Zenon
    <2>2. CASE r # p
      <3>1. r \in DOMAIN ps /\ ps2[r] = ps[r]
        BY <1>1, <1>16, <2>2
      <3>2. ASSUME NEW h \in DOMAIN ps[r].pages, PageHere(m, r, ps[r], h, S)
            PROVE  PageHere(m2, r, ps[r], h, S)
        <4>1. \A j \in Offset : m2[ps[r].pages[h].index[j]] = m[ps[r].pages[h].index[j]]
          BY <1>15, <2>2, <3>1, <3>2
        <4>2. PICK t : t = ps[r]
          OBVIOUS
        <4>3. /\ PageHere(m, r, t, h, S) /\ 3 * h < t.fpos
              /\ \A j \in Offset : m2[t.pages[h].index[j]] = m[t.pages[h].index[j]]
          BY <3>2, <4>1, <4>2, Zenon DEF PageHere
        <4>4. PageHere(m2, r, t, h, S)
          BY <4>3, HereSame
        <4>5. QED
          BY <4>2, <4>4
      <3>3. QED
        BY <3>1, <3>2, Zenon DEF FramesPlain, PagesPlain
    <2>3. QED
      BY <2>1, <2>2
  <1>17. PagesPlain(m2, ps2, S)
    BY <1>16, Zenon DEF PagesPlain
  <1>18. ASSUME NEW r \in DOMAIN ps2, NEW h \in DOMAIN ps2[r].pages
         PROVE  Here(ps2[r], h) <=> Here(ps[r], h) /\ ~(r = p /\ h = i)
    <2>1. CASE r = p /\ h = i
      BY <1>1, <1>14, <2>1
    <2>2. CASE r = p /\ h # i
      <3>1. new.pages[h] = q.pages[h]
        BY <1>1, <1>7, <1>18, <2>2
      <3>2. QED
        BY <1>1, <2>2, <3>1, Zenon DEF Here
    <2>3. CASE r # p
      BY <1>1, <1>18, <2>3, Zenon
    <2>4. QED
      BY <2>1, <2>2, <2>3
  <1>19. OwnedPlain(m2, ps2)
    <2>1. ASSUME NEW x \in Frames, NEW r, r = m2[x].var, r \in DOMAIN ps2
          PROVE  \E h \in DOMAIN ps2[r].pages : Here(ps2[r], h) /\ x \in Three(ps2[r].pages[h].index[0])
      <3>1. x \notin Three(k)
        BY <1>1, <1>8, <1>9, <1>10, <2>1
      <3>2. m[x].var = r /\ r \in DOMAIN ps
        BY <1>1, <1>8, <1>9, <2>1, <3>1
      <3>3. PICK h \in DOMAIN ps[r].pages : Here(ps[r], h) /\ x \in Three(ps[r].pages[h].index[0])
        BY <2>1, <3>2, Zenon DEF FramesPlain, OwnedPlain
      <3>4. ~(r = p /\ h = i)
        BY <1>4, <3>1, <3>3
      <3>5. h \in DOMAIN ps2[r].pages /\ ps2[r].pages[h] = ps[r].pages[h]
        <4>1. CASE r = p
          BY <1>1, <1>7, <3>3, <3>4, <4>1
        <4>2. CASE r # p
          BY <1>1, <3>2, <3>3, <4>2, Zenon
        <4>3. QED
          BY <4>1, <4>2
      <3>6. Here(ps2[r], h)
        BY <3>3, <3>5, Zenon DEF Here
      <3>7. QED
        BY <3>3, <3>5, <3>6, Zenon
    <2>2. QED
      BY <2>1, Zenon DEF OwnedPlain
  <1>20. Pages(ps, ps2)
    BY <1>1, <1>7, Zenon DEF Pages
  <1>21. QED
    BY <1>1, <1>10, <1>12, <1>13, <1>17, <1>18, <1>19, <1>20, Zenon DEF FramesPlain, NowAway

(* ... and the page leaves the list. *)
LEMMA EvictList ==
  ASSUME NEW ps, NEW list, ListOK(ps, list), ListPlain(ps, list), list # <<>>,
         NEW ps2, NEW p, NEW i, list[Len(list)] = <<p, i>>, NowAway(ps, p, i, ps2)
  PROVE  /\ ListPlain(ps2, Without(list, Len(list)))
         /\ \A c, d : Ahead(Without(list, Len(list)), c, d) => Ahead(list, c, d)
  <1>. PICK list2 : list2 = Without(list, Len(list))
    OBVIOUS
  <1>0. /\ DOMAIN ps2 = DOMAIN ps
        /\ \A r \in DOMAIN ps : DOMAIN ps2[r].pages = DOMAIN ps[r].pages
        /\ \A r \in DOMAIN ps2 : \A h \in DOMAIN ps2[r].pages :
             Here(ps2[r], h) <=> Here(ps[r], h) /\ ~(r = p /\ h = i)
    BY Zenon DEF NowAway, Pages
  <1>1. list \in Seq(Pid \X Nat) /\ Len(list) \in 1 .. Len(list)
    BY DEF ListOK
  <1>2. Distinct(list)
    BY Zenon DEF ListPlain
  <1>3. /\ Distinct(list2) /\ ~In(<<p, i>>, list2)
        /\ \A c, d : Ahead(list2, c, d) => Ahead(list, c, d)
    BY <1>1, <1>2, AheadWithout
  <1>4. /\ \A d : In(d, list2) => In(d, list)
        /\ \A d : In(d, list) => d = <<p, i>> \/ In(d, list2)
    BY <1>1, InWithout
  <1>5. ASSUME NEW r \in DOMAIN ps2, NEW h \in DOMAIN ps2[r].pages
        PROVE  Here(ps2[r], h) <=> In(<<r, h>>, list2)
    <2>1. Here(ps[r], h) <=> In(<<r, h>>, list)
      BY <1>0, <1>5, Zenon DEF ListPlain
    <2>2. <<r, h>> = <<p, i>> <=> r = p /\ h = i
      OBVIOUS
    <2>3. QED
      BY <1>0, <1>3, <1>4, <1>5, <2>1, <2>2, Zenon
  <1>6. ListPlain(ps2, list2)
    BY <1>3, <1>5, Zenon DEF ListPlain
  <1>7. QED
    BY <1>3, <1>6

-----------------------------------------------------------------------------
(* The victim is never needed again: were it, every page in the frame      *)
(* store would be one of the two newest of its process, and the pages that *)
(* PCB_init put there, two of each process, had left one place free.       *)

LEMMA NoRoom ==
  ASSUME NEW S, IsFiniteSet(S), NEW B, NEW b \in B,
         NEW f \in [B -> S], \A d, e \in B : f[d] = f[e] => d = e,
         NEW g \in [S -> B], \A s, t \in S : g[s] = g[t] => s = t,
         \A s \in S : g[s] # b
  PROVE  FALSE
  <1>. DEFINE T == S \ {f[b]}
              h == [s \in S |-> f[g[s]]]
  <1>1. f[b] \in S
    OBVIOUS
  <1>2. IsFiniteSet(T) /\ Cardinality(T) = Cardinality(S) - 1 /\ Cardinality(S) \in Nat
    BY <1>1, FS_RemoveElement, FS_CardinalityType
  <1>3. h \in [S -> T]
    BY <1>1
  <1>4. \A s, t \in S : h[s] = h[t] => s = t
    OBVIOUS
  <1>. HIDE DEF T, h
  <1>5. Cardinality(T) < Cardinality(S)
    BY <1>2
  <1>6. \E s, t \in S : s # t /\ h[s] = h[t]
    BY <1>2, <1>3, <1>5, FS_PigeonHole
  <1>7. QED
    BY <1>4, <1>6

(* Of the pages a process may still need in memory, two in a row, one has  *)
(* an even number and one an odd number.                                   *)
LEMMA RecentApart ==
  ASSUME NEW q, Ran(q) \in Nat, NEW i \in Nat, NEW k \in Nat, Recent(q, i), Recent(q, k),
         i % 2 = k % 2
  PROVE  i = k
  <1>1. /\ (3 * i <= Ran(q) /\ Ran(q) < 3 * i + 6) \/ (i = 1 /\ Ran(q) < 3)
        /\ (3 * k <= Ran(q) /\ Ran(q) < 3 * k + 6) \/ (k = 1 /\ Ran(q) < 3)
    BY DEF Recent
  <1>2. CASE i < k
    <2>1. i + 1 = k
      BY <1>1, <1>2
    <2>2. QED
      BY <2>1
  <1>3. CASE k < i
    <2>1. k + 1 = i
      BY <1>1, <1>3
    <2>2. QED
      BY <2>1
  <1>4. QED
    BY <1>2, <1>3

(* When no frame is free, a page is resident that is not among the two     *)
(* newest of its process.                                                  *)
LEMMA SomeNotRecent ==
  ASSUME NEW m, NEW ps, PcbsOK(ps), NEW S, FramesPlain(m, ps, S), BasePlain(ps, S), NoFrame(m),
         NEW p \in DOMAIN ps, NEW i \in DOMAIN ps[p].pages, Ran(ps[p]) = 3 * i,
         ~Here(ps[p], i)
  PROVE  \E r \in DOMAIN ps : \E k \in DOMAIN ps[r].pages : Here(ps[r], k) /\ ~Recent(ps[r], k)
  <1>1. SUFFICES ASSUME \A r \in DOMAIN ps : \A k \in DOMAIN ps[r].pages :
                          Here(ps[r], k) => Recent(ps[r], k)
                 PROVE  FALSE
    OBVIOUS
  <1>2. \A r \in DOMAIN ps : /\ Ran(ps[r]) \in Nat /\ Size(ps[r]) \in Nat
                             /\ \A k \in DOMAIN ps[r].pages : k \in Nat /\ 3 * k < Size(ps[r])
                             /\ \A k \in Nat : 3 * k < Size(ps[r]) => k \in DOMAIN ps[r].pages
    <2>1. ASSUME NEW r \in DOMAIN ps
          PROVE  /\ Ran(ps[r]) \in Nat /\ Size(ps[r]) \in Nat
                 /\ \A k \in DOMAIN ps[r].pages : k \in Nat /\ 3 * k < Size(ps[r])
                 /\ \A k \in Nat : 3 * k < Size(ps[r]) => k \in DOMAIN ps[r].pages
      <3>1. PICK q : q = ps[r]
        OBVIOUS
      <3>2. PcbPlain(q) /\ q \in PcbType
        BY <3>1 DEF FramesPlain, PagesPlain, PcbsOK
      <3>3. QED
        BY <3>1, <3>2, PcbFacts
    <2>2. QED
      BY <2>1
  <1>3. ASSUME NEW r \in DOMAIN ps, NEW k \in DOMAIN ps[r].pages
        PROVE  <<r, k % 2>> \in Base(ps)
    <2>1. k \in Nat /\ 3 * k < Size(ps[r]) /\ Size(ps[r]) \in Nat
      BY <1>2
    <2>2. k % 2 \in {0, 1} /\ k % 2 \in Nat /\ 3 * (k % 2) <= 3 * k
      BY <2>1
    <2>3. k % 2 \in DOMAIN ps[r].pages
      BY <1>2, <2>1, <2>2
    <2>4. QED
      BY <2>2, <2>3 DEF Base
  <1>. DEFINE Holds(s, r, k) == /\ r \in DOMAIN ps /\ k \in DOMAIN ps[r].pages
                                /\ Here(ps[r], k) /\ ps[r].pages[k].index[0] = s
              owner(s) == CHOOSE r : \E k : Holds(s, r, k)
              page(s) == CHOOSE k : Holds(s, owner(s), k)
              g == [s \in S |-> <<owner(s), page(s) % 2>>]
  <1>4. \A s \in S : Holds(s, owner(s), page(s))
    <2>1. ASSUME NEW s \in S PROVE \E r : \E k : Holds(s, r, k)
      BY <2>1, NoFrameIs
    <2>2. QED
      BY <2>1, Zenon
  <1>. HIDE DEF owner, page
  <1>5. g \in [S -> Base(ps)]
    BY <1>3, <1>4
  <1>6. ASSUME NEW s \in S, NEW t \in S, g[s] = g[t] PROVE s = t
    <2>1. owner(s) = owner(t) /\ page(s) % 2 = page(t) % 2
      BY <1>6
    <2>2. PICK q : q = ps[owner(s)]
      OBVIOUS
    <2>3. Recent(q, page(s)) /\ Recent(q, page(t)) /\ Ran(q) \in Nat /\ page(s) \in Nat /\ page(t) \in Nat
      BY <1>1, <1>2, <1>4, <1>6, <2>1, <2>2
    <2>4. page(s) = page(t)
      BY <2>1, <2>3, RecentApart
    <2>5. QED
      BY <1>4, <1>6, <2>1, <2>4
  <1>7. ASSUME NEW s \in S PROVE g[s] # <<p, i % 2>>
    <2>1. SUFFICES ASSUME owner(s) = p, page(s) % 2 = i % 2 PROVE FALSE
      BY <1>7
    <2>2. PICK q : q = ps[p]
      OBVIOUS
    <2>3. Here(q, page(s)) /\ Recent(q, page(s)) /\ page(s) \in Nat /\ i \in Nat
      BY <1>1, <1>2, <1>4, <1>7, <2>1, <2>2
    <2>4. Recent(q, i) /\ Ran(q) \in Nat
      BY <1>2, <2>2, <2>3 DEF Recent
    <2>5. page(s) = i
      BY <2>1, <2>3, <2>4, RecentApart
    <2>6. QED
      BY <2>2, <2>3, <2>5
  <1>8. PICK f \in [Base(ps) -> S] : \A d, e \in Base(ps) : f[d] = f[e] => d = e
    BY DEF BasePlain
  <1>9. IsFiniteSet(S)
    <2>1. S \subseteq 0 .. FrameStoreSize - 3
      BY StartsType DEF FramesPlain
    <2>2. IsFiniteSet(0 .. FrameStoreSize - 3)
      BY FS_Interval, KernelAssumption
    <2>3. QED
      BY <2>1, <2>2, FS_Subset
  <1>. HIDE DEF g
  <1>10. <<p, i % 2>> \in Base(ps)
    BY <1>3
  <1>11. QED
    BY <1>5, <1>6, <1>7, <1>8, <1>9, <1>10, NoRoom

(* The tail of the list is a page that is done, or of a process that is. *)
LEMMA VictimDone ==
  ASSUME NEW m, NEW ps, PcbsOK(ps), NEW S, NEW list, ListOK(ps, list), list # <<>>,
         CorePlain(m, ps, list, S), None \notin DOMAIN ps, NoFrame(m),
         NEW q, NEW c, SyncPlain(ps, q, c), c.left \in Nat,
         NEW p \in DOMAIN ps, c.pid = p, NEW i \in DOMAIN ps[p].pages,
         Ran(ps[p]) = 3 * i, i >= 2, ~Here(ps[p], i),
         NEW o, NEW h, list[Len(list)] = <<o, h>>
  PROVE  /\ o \in DOMAIN ps /\ h \in DOMAIN ps[o].pages /\ Here(ps[o], h)
         /\ 3 * h + 3 <= Ran(ps[o]) \/ ps[o].size = 0
  <1>1. FramesPlain(m, ps, S) /\ BasePlain(ps, S) /\ ListPlain(ps, list) /\ OrderPlain(ps, list)
    BY Zenon DEF CorePlain, FramesPlain
  <1>2. list \in Seq(Pid \X Nat) /\ Len(list) \in 1 .. Len(list) /\ In(<<o, h>>, list)
    BY DEF ListOK, In
  <1>3. <<o, h>> \in Pid \X Nat
    BY <1>2 DEF In
  <1>4. o \in DOMAIN ps /\ h \in DOMAIN ps[o].pages
    BY <1>2, <1>3 DEF ListOK
  <1>5. Here(ps[o], h)
    BY <1>1, <1>2, <1>4, Zenon DEF ListPlain
  <1>6. PICK t : t = ps[o]
    OBVIOUS
  <1>7. PageHere(m, o, t, h, S) /\ PcbPlain(t) /\ t \in PcbType
    BY <1>1, <1>4, <1>5, <1>6, IsHere DEF FramesPlain, PagesPlain, PcbsOK
  <1>8. /\ Ran(t) \in Nat /\ t.size \in Nat /\ h \in Nat
    BY <1>4, <1>6, <1>7, PcbFacts
  <1>9. ASSUME t.size > 0, Ran(t) < 3 * h + 3 PROVE FALSE
    <2>1. CASE 3 * h <= Ran(t)
      <3>1. At(t, h)
        BY <1>9, <2>1 DEF At
      <3>2. ASSUME NEW r \in DOMAIN ps, NEW k \in DOMAIN ps[r].pages, Here(ps[r], k)
            PROVE  Recent(ps[r], k)
        <4>1. In(<<r, k>>, list)
          BY <1>1, <3>2, Zenon DEF ListPlain
        <4>2. CASE <<r, k>> = <<o, h>>
          <5>1. r = o /\ k = h
            BY <4>2
          <5>2. Recent(t, h)
            BY <1>8, <3>1 DEF At, Recent
          <5>3. QED
            BY <1>6, <5>1, <5>2
        <4>3. CASE <<r, k>> # <<o, h>>
          <5>1. Ahead(list, <<r, k>>, <<o, h>>)
            BY <1>2, <4>1, <4>3, AheadOfLast
          <5>2. ps[o].size > 0 /\ At(ps[o], h)
            BY <1>6, <1>9, <3>1
          <5>3. QED
            BY <1>1, <1>4, <3>2, <5>1, <5>2, Zenon DEF OrderPlain
        <4>4. QED
          BY <4>2, <4>3
      <3>3. QED
        BY <1>1, <3>2, SomeNotRecent
    <2>2. CASE ~(3 * h <= Ran(t))
      <3>1. h <= 1 \/ 3 * h <= Ran(t)
        BY <1>4, <1>6, <1>7 DEF PageHere, PcbPlain
      <3>2. h = 1 /\ Ran(t) < 3
        BY <1>8, <2>2, <3>1
      <3>3. i \in Nat
        <4>1. ps[p] \in PcbType /\ PcbPlain(ps[p])
          BY <1>1 DEF FramesPlain, PagesPlain, PcbsOK
        <4>2. PICK u : u = ps[p]
          OBVIOUS
        <4>3. QED
          BY <4>1, <4>2, PcbFacts
      <3>4. p # o
        BY <1>6, <3>2, <3>3
      <3>5. Ran(ps[p]) + c.left <= Ran(t) + 2
        BY <1>4, <1>6, <1>9, <3>2, <3>4, Zenon DEF SyncPlain
      <3>6. QED
        BY <1>8, <3>2, <3>3, <3>5
    <2>3. QED
      BY <2>1, <2>2
  <1>10. 3 * h + 3 <= Ran(t) \/ t.size = 0
    BY <1>8, <1>9
  <1>11. QED
    BY <1>4, <1>5, <1>6, <1>10

-----------------------------------------------------------------------------
(* A page fault is about the next page of source_file.                     *)

LEMMA NoneIsNoPid ==
  ASSUME NEW ps, PcbsOK(ps)
  PROVE  None \notin DOMAIN ps /\ 0 \notin DOMAIN ps
  BY KernelAssumption DEF PcbsOK, Pid

(* A page fault happens at the start of the third page or a later one. *)
LEMMA FaultStart ==
  ASSUME NEW p \in DOMAIN pcbs, NEW q, q = pcbs[p], q \in PcbType, PcbPlain(q), q.size > 0,
         q.fpos = Size(q) \/ q.fpos >= 6,
         NEW i, Current(p, i), ~ValidHere(p, i), NEW S, PageHere(mem, p, q, i, S) \/ PageAway(q, i)
  PROVE  /\ q.fpos = 3 * i /\ Ran(q) = 3 * i /\ i >= 2 /\ i \in Nat /\ ~Here(q, i) /\ At(q, i)
  <1>1. /\ i \in DOMAIN q.pages /\ At(q, i) /\ q.pages[i].pc = Ran(q) - 3 * i
    BY CurrentIs
  <1>2. /\ Size(q) \in Nat /\ q.fpos \in Nat /\ Ran(q) \in Nat /\ Ran(q) < Size(q) /\ i \in Nat
    BY <1>1, PcbFacts
  <1>3. 3 * i <= Ran(q) /\ Ran(q) < 3 * i + 3
    BY <1>1 DEF At
  <1>4. PICK j : j = Ran(q) - 3 * i
    OBVIOUS
  <1>5. j \in Offset /\ 3 * i + j = Ran(q)
    BY <1>2, <1>3, <1>4 DEF Offset
  <1>6. ~q.pages[i].valid[j]
    BY <1>1, <1>4 DEF ValidHere
  <1>7. ~PageHere(mem, p, q, i, S)
    BY <1>2, <1>5, <1>6 DEF PageHere
  <1>8. PageAway(q, i)
    BY <1>7
  <1>9. ~(3 * i < q.fpos) /\ ~Here(q, i)
    BY <1>2, <1>3, <1>8 DEF PageAway, Here, Offset
  <1>10. Ran(q) <= q.fpos
    BY DEF PcbPlain
  <1>11. q.fpos = 3 * i /\ Ran(q) = 3 * i
    BY <1>2, <1>3, <1>9, <1>10
  <1>12. i >= 2
    BY <1>2, <1>11
  <1>13. QED
    BY <1>1, <1>2, <1>9, <1>11, <1>12

(* The page is loaded when there is a frame for it. *)
LEMMA LoadsPlain ==
  ASSUME NEW ps, NEW m, NEW list, MemOK(m), PcbsOK(ps), ListOK(ps, list), ListPlain(ps, list),
         NEW S, FramesPlain(m, ps, S), ~NoFrame(m), NEW p \in DOMAIN ps,
         NEW q, q = ps[p], NEW i \in DOMAIN q.pages,
         q.fpos = 3 * i, i <= 1 \/ 3 * i <= Ran(q), Loads(p, i, ps, m, list)
  PROVE  /\ FramesPlain(mem', pcbs', S) /\ ListPlain(pcbs', lru')
         /\ Becomes(ps, p, pcbs'[p], pcbs')
         /\ pcbs'[p].script = q.script /\ pcbs'[p].size = q.size
         /\ DOMAIN pcbs'[p].pages = DOMAIN q.pages
         /\ pcbs'[p].fpos = Size(q) \/ pcbs'[p].fpos = 3 * i + 3
         /\ Pushed(p, i, list)
  <1>1. q \in PcbType /\ p \in Pid
    BY DEF PcbsOK
  <1>2. PcbPlain(q)
    BY DEF FramesPlain, PagesPlain
  <1>3. i \in Nat
    BY <1>1, <1>2, PcbFacts
  <1>4. PICK k \in Frames : /\ FirstFit(m, k) /\ mem' = LoadedMem(m, p, ps[p], k)
                            /\ pcbs' = [ps EXCEPT ![p] = LoadedPcb(ps[p], i, k)]
    BY Zenon DEF Loads
  <1>5. PICK new : new = LoadedPcb(q, i, k)
    OBVIOUS
  <1>6. PICK ps2 : ps2 = pcbs'
    OBVIOUS
  <1>7. PICK m2 : m2 = mem'
    OBVIOUS
  <1>8. PICK list2 : list2 = lru'
    OBVIOUS
  <1>9. m2 = LoadedMem(m, p, q, k) /\ ps2 = [ps EXCEPT ![p] = new] /\ list2 = <<<<p, i>>>> \o list
    BY <1>4, <1>5, <1>6, <1>7, <1>8, Zenon DEF Loads
  <1>10. Becomes(ps, p, new, ps2)
    BY <1>9 DEF Becomes
  <1>11. FramesPlain(m2, ps2, S) /\ NowHere(ps, p, i, ps2)
    <2>1. LoadedAt(m, ps, p, i, k, m2, ps2)
      BY <1>5, <1>9, <1>10, Zenon DEF LoadedAt
    <2>2. QED
      BY <1>1, <1>4, <2>1, LoadFrames
  <1>12. /\ new.script = q.script /\ new.size = q.size
         /\ DOMAIN new.pages = DOMAIN q.pages
    BY <1>1, <1>5, LoadedIs
  <1>13. new.fpos = Size(q) \/ new.fpos = 3 * i + 3
    BY <1>1, <1>2, <1>5, LoadedPlain
  <1>14. ListPlain(ps2, list2) /\ Pushed(p, i, list)
    BY <1>1, <1>3, <1>9, <1>11, LoadList
  <1>15. pcbs'[p] = new
    BY <1>6, <1>10, Zenon DEF Becomes
  <1>16. QED
    BY <1>6, <1>7, <1>8, <1>10, <1>11, <1>12, <1>13, <1>14, <1>15, Zenon

(* Processes that differ in their page tables only. *)
SameLines(ps, ps2) ==
  /\ DOMAIN ps2 = DOMAIN ps
  /\ \A r \in DOMAIN ps : /\ ps2[r].script = ps[r].script /\ ps2[r].size = ps[r].size
                          /\ DOMAIN ps2[r].pages = DOMAIN ps[r].pages

(* The order in the list after page i of process p came to its head. *)
ToHead(old, p, i, new) ==
  \A c, d : Ahead(new, c, d) => d # <<p, i>> /\ (c = <<p, i>> \/ Ahead(old, c, d))

(* A page that was not in the list and is put at its head. *)
LEMMA PushedToHead ==
  ASSUME NEW old, NEW p, NEW i, NEW list, Pushed(p, i, list),
         \A c, d : Ahead(list, c, d) => Ahead(old, c, d), NEW new, new = <<<<p, i>>>> \o list
  PROVE  ToHead(old, p, i, new)
  <1>1. ~In(<<p, i>>, list)
    BY DEF Pushed
  <1>2. ASSUME NEW c, NEW d, Ahead(new, c, d)
        PROVE  d # <<p, i>> /\ (c = <<p, i>> \/ Ahead(old, c, d))
    <2>1. (c = <<p, i>> /\ In(d, list)) \/ Ahead(list, c, d)
      BY <1>2, Zenon DEF Pushed
    <2>2. In(d, list)
      BY <2>1, AheadIn
    <2>3. QED
      BY <1>1, <2>1, <2>2, Zenon
  <1>3. QED
    BY <1>2, Zenon DEF ToHead

(* A page fault keeps the core of the invariant. *)
LEMMA FaultPlain ==
  ASSUME KInv, cpu # Idle, NEW S, CorePlain(mem, pcbs, lru, S), SyncPlain(pcbs, queue, cpu),
         NEW p, p = cpu.pid, NEW i, Current(p, i), ~ValidHere(p, i), Fault(p, i, pcbs)
  PROVE  /\ FramesPlain(mem', pcbs', S) /\ ListPlain(pcbs', lru') /\ TwoRead(pcbs')
         /\ SameLines(pcbs, pcbs') /\ ToHead(lru, p, i, lru')
         /\ p \in DOMAIN pcbs /\ i \in DOMAIN pcbs[p].pages
         /\ Ran(pcbs[p]) = 3 * i /\ i >= 2 /\ i \in Nat
  <1>1. /\ MemOK(mem) /\ PcbsOK(pcbs) /\ ListOK(pcbs, lru) /\ Listed(pcbs, lru)
        /\ pcbs # <<>> => lru # <<>> /\ FrameStoreSize >= 3
    BY DEF KInv
  <1>2. PICK q : q = pcbs[p]
    OBVIOUS
  <1>3. i \in DOMAIN q.pages /\ i \in DOMAIN pcbs[p].pages
    BY <1>2 DEF Current
  <1>4. p \in DOMAIN pcbs /\ q \in PcbType /\ q.size > 0 /\ cpu.left \in Nat /\ p \in Pid
    <2>1. i \in DOMAIN pcbs[cpu.pid].pages /\ Current(cpu.pid, i)
      BY <1>2, <1>3
    <2>2. /\ cpu \in [pid : DOMAIN pcbs, left : 1 .. 2, requeue : BOOLEAN]
          /\ pcbs[cpu.pid] \in PcbType /\ pcbs[cpu.pid].size >= cpu.left
      BY <2>1, RunningIs
    <2>3. pcbs[cpu.pid].size \in Nat
      BY <2>2 DEF PcbType
    <2>4. QED
      BY <1>1, <1>2, <2>2, <2>3 DEF PcbsOK
  <1>5. pcbs # <<>>
    BY <1>4
  <1>6. None \notin DOMAIN pcbs
    BY <1>1, NoneIsNoPid
  <1>7. /\ FramesPlain(mem, pcbs, S) /\ ListPlain(pcbs, lru) /\ TwoRead(pcbs)
    BY <1>6, Zenon DEF CorePlain, FramesPlain
  <1>8. PcbPlain(q) /\ (PageHere(mem, p, q, i, S) \/ PageAway(q, i))
    BY <1>2, <1>3, <1>4, <1>7, Zenon DEF FramesPlain, PagesPlain
  <1>9. q.fpos = Size(q) \/ q.fpos >= 6
    BY <1>2, <1>4, <1>7, Zenon DEF TwoRead
  <1>10. /\ q.fpos = 3 * i /\ Ran(q) = 3 * i /\ i >= 2 /\ i \in Nat /\ ~Here(q, i)
    BY <1>2, <1>4, <1>8, <1>9, FaultStart
  <1>11. ASSUME NEW ps, PcbsOK(ps), NEW m, MemOK(m), NEW list, ListOK(ps, list),
                ListPlain(ps, list), FramesPlain(m, ps, S), ~NoFrame(m),
                NEW t, t = ps[p], t.fpos = q.fpos, Ran(t) = Ran(q), Size(t) = Size(q),
                TwoRead(ps), SameLines(pcbs, ps), Loads(p, i, ps, m, list),
                \A c, d : Ahead(list, c, d) => Ahead(lru, c, d)
         PROVE  /\ FramesPlain(mem', pcbs', S) /\ ListPlain(pcbs', lru') /\ TwoRead(pcbs')
                /\ SameLines(pcbs, pcbs') /\ ToHead(lru, p, i, lru')
    <2>1. p \in DOMAIN ps /\ i \in DOMAIN t.pages
      BY <1>2, <1>3, <1>4, <1>11 DEF SameLines
    <2>2. t.fpos = 3 * i /\ (i <= 1 \/ 3 * i <= Ran(t))
      BY <1>10, <1>11
    <2>3. PICK ps2 : ps2 = pcbs'
      OBVIOUS
    <2>4. /\ FramesPlain(mem', ps2, S) /\ ListPlain(ps2, lru')
          /\ Becomes(ps, p, ps2[p], ps2)
          /\ ps2[p].script = t.script /\ ps2[p].size = t.size
          /\ DOMAIN ps2[p].pages = DOMAIN t.pages
          /\ ps2[p].fpos = Size(t) \/ ps2[p].fpos = 3 * i + 3
          /\ Pushed(p, i, list)
      BY <1>11, <2>1, <2>2, <2>3, LoadsPlain
    <2>5. /\ DOMAIN ps2 = DOMAIN ps /\ \A r \in DOMAIN ps : r # p => ps2[r] = ps[r]
      BY <2>4 DEF Becomes
    <2>6. SameLines(pcbs, ps2)
      <3>1. ASSUME NEW r \in DOMAIN pcbs
            PROVE  /\ ps2[r].script = pcbs[r].script /\ ps2[r].size = pcbs[r].size
                   /\ DOMAIN ps2[r].pages = DOMAIN pcbs[r].pages
        <4>1. /\ r \in DOMAIN ps /\ ps[r].script = pcbs[r].script /\ ps[r].size = pcbs[r].size
              /\ DOMAIN ps[r].pages = DOMAIN pcbs[r].pages
          BY <1>11, <3>1, Zenon DEF SameLines
        <4>2. CASE r = p
          BY <1>11, <2>4, <4>1, <4>2
        <4>3. CASE r # p
          BY <2>5, <4>1, <4>3, Zenon
        <4>4. QED
          BY <4>2, <4>3
      <3>2. DOMAIN ps2 = DOMAIN pcbs
        BY <1>11, <2>5 DEF SameLines
      <3>3. QED
        BY <3>1, <3>2, Zenon DEF SameLines
    <2>7. TwoRead(ps2)
      <3>1. ASSUME NEW r \in DOMAIN ps2 PROVE ps2[r].fpos = Size(ps2[r]) \/ ps2[r].fpos >= 6
        <4>1. CASE r = p
          <5>1. Size(ps2[p]) = Size(t)
            BY <2>4 DEF Size
          <5>2. QED
            BY <1>10, <2>4, <4>1, <5>1
        <4>2. CASE r # p
          BY <1>11, <2>5, <3>1, <4>2, Zenon DEF TwoRead
        <4>3. QED
          BY <4>1, <4>2
      <3>2. QED
        BY <3>1, Zenon DEF TwoRead
    <2>8. ToHead(lru, p, i, lru')
      <3>1. PICK new : new = lru'
        OBVIOUS
      <3>2. new = <<<<p, i>>>> \o list
        BY <1>11, <3>1, Zenon DEF Loads
      <3>3. ToHead(lru, p, i, new)
        BY <1>11, <2>4, <3>2, PushedToHead
      <3>4. QED
        BY <3>1, <3>3
    <2>9. QED
      BY <2>3, <2>4, <2>6, <2>7, <2>8
  <1>12. CASE ~NoFrame(mem) /\ Loads(p, i, pcbs, mem, lru)
    <2>1. SameLines(pcbs, pcbs)
      BY DEF SameLines
    <2>2. /\ FramesPlain(mem', pcbs', S) /\ ListPlain(pcbs', lru') /\ TwoRead(pcbs')
          /\ SameLines(pcbs, pcbs') /\ ToHead(lru, p, i, lru')
      BY <1>1, <1>2, <1>7, <1>11, <1>12, <2>1
    <2>3. QED
      BY <1>2, <1>3, <1>4, <1>10, <2>2
  <1>13. ASSUME NoFrame(mem), NEW o, NEW h, lru[Len(lru)] = <<o, h>>,
                NEW ps, ps = Evicted(pcbs, o, h), NEW m, m = EvictedMem(mem, pcbs[o].pages[h]),
                NEW list, list = Without(lru, Len(lru)), Loads(p, i, ps, m, list)
         PROVE  /\ FramesPlain(mem', pcbs', S) /\ ListPlain(pcbs', lru') /\ TwoRead(pcbs')
                /\ SameLines(pcbs, pcbs') /\ ToHead(lru, p, i, lru')
    <2>1. /\ o \in DOMAIN pcbs /\ h \in DOMAIN pcbs[o].pages
          /\ DOMAIN ps = DOMAIN pcbs /\ ps[o] = EvictedPcb(pcbs[o], h)
          /\ \A r \in DOMAIN pcbs \ {o} : ps[r] = pcbs[r]
          /\ PcbsOK(ps) /\ ListOK(ps, list)
      BY <1>1, <1>5, <1>13, EvictKeeps
    <2>2. MemOK(m)
      BY <1>1, <1>13, EvictedMemOK
    <2>3. /\ Here(pcbs[o], h)
          /\ 3 * h + 3 <= Ran(pcbs[o]) \/ pcbs[o].size = 0
      BY <1>1, <1>2, <1>3, <1>4, <1>5, <1>6, <1>10, <1>13, VictimDone
    <2>4. PICK u : u = pcbs[o]
      OBVIOUS
    <2>5. u \in PcbType /\ PcbPlain(u)
      BY <1>1, <1>7, <2>1, <2>4 DEF PcbsOK, FramesPlain, PagesPlain
    <2>6. Becomes(pcbs, o, EvictedPcb(pcbs[o], h), ps)
      BY <2>1, Zenon DEF Becomes
    <2>7. EvictedFrom(mem, pcbs, o, h, m, ps)
      BY <1>13, <2>6, Zenon DEF EvictedFrom
    <2>8. FramesPlain(m, ps, S) /\ ~NoFrame(m) /\ NowAway(pcbs, o, h, ps)
      BY <1>1, <1>7, <2>1, <2>3, <2>4, <2>5, <2>7, EvictFrames
    <2>9. ListPlain(ps, list) /\ \A c, d : Ahead(list, c, d) => Ahead(lru, c, d)
      BY <1>1, <1>5, <1>7, <1>13, <2>8, EvictList
    <2>10. PICK v : v = EvictedPcb(u, h)
      OBVIOUS
    <2>11. /\ v.script = u.script /\ v.size = u.size /\ v.fpos = u.fpos
           /\ DOMAIN v.pages = DOMAIN u.pages
      BY <2>1, <2>4, <2>5, <2>10, EvictedIs
    <2>12. ASSUME NEW r \in DOMAIN pcbs
           PROVE  /\ ps[r].script = pcbs[r].script /\ ps[r].size = pcbs[r].size
                  /\ ps[r].fpos = pcbs[r].fpos /\ DOMAIN ps[r].pages = DOMAIN pcbs[r].pages
      <3>1. CASE r = o
        BY <2>1, <2>4, <2>10, <2>11, <3>1
      <3>2. CASE r # o
        BY <2>1, <2>12, <3>2
      <3>3. QED
        BY <3>1, <3>2
    <2>13. SameLines(pcbs, ps)
      BY <2>1, <2>12, Zenon DEF SameLines
    <2>14. TwoRead(ps)
      BY <1>7, <2>1, <2>12 DEF TwoRead, Size
    <2>15. PICK t : t = ps[p]
      OBVIOUS
    <2>16. t.fpos = q.fpos /\ Ran(t) = Ran(q) /\ Size(t) = Size(q)
      BY <1>2, <1>4, <2>12, <2>15 DEF Ran, Size
    <2>17. QED
      BY <1>11, <1>13, <2>1, <2>2, <2>8, <2>9, <2>13, <2>14, <2>15, <2>16
  <1>14. lru # <<>>
    BY <1>1, <1>5
  <1>15. /\ FramesPlain(mem', pcbs', S) /\ ListPlain(pcbs', lru') /\ TwoRead(pcbs')
         /\ SameLines(pcbs, pcbs') /\ ToHead(lru, p, i, lru')
    BY <1>1, <1>12, <1>13, <1>14, FaultIs
  <1>16. QED
    BY <1>2, <1>3, <1>4, <1>10, <1>15

-----------------------------------------------------------------------------
(* The turns after a page fault.                                           *)

LEMMA SameLinesIs ==
  ASSUME NEW ps, NEW ps2, SameLines(ps, ps2)
  PROVE  /\ DOMAIN ps2 = DOMAIN ps /\ Base(ps2) = Base(ps)
         /\ \A r \in DOMAIN ps : /\ DOMAIN ps2[r].pages = DOMAIN ps[r].pages
                                 /\ ps2[r].size = ps[r].size /\ ps2[r].script = ps[r].script
                                 /\ Size(ps2[r]) = Size(ps[r]) /\ Ran(ps2[r]) = Ran(ps[r])
  <1>1. \A r \in DOMAIN ps : /\ DOMAIN ps2[r].pages = DOMAIN ps[r].pages
                             /\ ps2[r].size = ps[r].size /\ ps2[r].script = ps[r].script
    BY Zenon DEF SameLines
  <1>2. \A r \in DOMAIN ps : Size(ps2[r]) = Size(ps[r])
    BY <1>1, Zenon DEF Size
  <1>3. \A r \in DOMAIN ps : Ran(ps2[r]) = Ran(ps[r])
    BY <1>1, <1>2, Zenon DEF Ran
  <1>4. DOMAIN ps2 = DOMAIN ps
    BY DEF SameLines
  <1>5. Base(ps2) = Base(ps)
    BY <1>1, <1>4, Zenon DEF Base
  <1>6. QED
    BY <1>1, <1>2, <1>3, <1>4, <1>5

(* The facts about one process that arithmetic needs. *)
LEMMA RanIs ==
  ASSUME NEW m, NEW ps, NEW S, PagesPlain(m, ps, S), PcbsOK(ps), NEW r \in DOMAIN ps
  PROVE  /\ PcbPlain(ps[r]) /\ ps[r] \in PcbType
         /\ Ran(ps[r]) \in Nat /\ Size(ps[r]) \in Nat \ {0} /\ ps[r].size \in Nat
         /\ Ran(ps[r]) = Size(ps[r]) - ps[r].size
         /\ \A k \in DOMAIN ps[r].pages : k \in Nat /\ 3 * k < Size(ps[r])
         /\ \A k \in Nat : 3 * k < Size(ps[r]) => k \in DOMAIN ps[r].pages
  <1>1. PICK q : q = ps[r]
    OBVIOUS
  <1>2. PcbPlain(q) /\ q \in PcbType
    BY <1>1 DEF PagesPlain, PcbsOK
  <1>3. QED
    BY <1>1, <1>2, PcbFacts

(* The process that runs is not in the queue. *)
LEMMA NotQueued ==
  ASSUME KInv, cpu # Idle
  PROVE  /\ cpu \in [pid : DOMAIN pcbs, left : 1 .. 2, requeue : BOOLEAN] /\ phase = "running"
         /\ queue \in Seq(DOMAIN pcbs) /\ Distinct(queue)
         /\ \A o : In(o, queue) => o # cpu.pid /\ o \in DOMAIN pcbs
  <1>1. cpu \in [pid : DOMAIN pcbs, left : 1 .. 2, requeue : BOOLEAN] /\ phase = "running"
    BY DEF KInv, TurnOK
  <1>2. queue \in Seq(DOMAIN pcbs) /\ Waiting(queue, pcbs, cpu.pid)
    BY WaitingIs DEF KInv
  <1>3. \A o : In(o, queue) => o \in DOMAIN pcbs
    BY <1>2 DEF In
  <1>4. QED
    BY <1>1, <1>2, <1>3 DEF Waiting

(* What is ahead in the list after a page of process p came to its head. *)
LEMMA OrderToHead ==
  ASSUME NEW ps, NEW list, OrderPlain(ps, list), NEW ps2, SameLines(ps, ps2),
         NEW p, NEW i, Recent(ps[p], i), NEW list2, ToHead(list, p, i, list2)
  PROVE  OrderPlain(ps2, list2)
  <1>1. /\ DOMAIN ps2 = DOMAIN ps
        /\ \A r \in DOMAIN ps : /\ DOMAIN ps2[r].pages = DOMAIN ps[r].pages
                                /\ ps2[r].size = ps[r].size /\ Ran(ps2[r]) = Ran(ps[r])
    BY SameLinesIs
  <1>2. ASSUME NEW o \in DOMAIN ps2, NEW n \in DOMAIN ps2[o].pages, ps2[o].size > 0, At(ps2[o], n),
               NEW r \in DOMAIN ps2, NEW k \in DOMAIN ps2[r].pages,
               Ahead(list2, <<r, k>>, <<o, n>>)
        PROVE  Recent(ps2[r], k)
    <2>1. ps[o].size > 0 /\ At(ps[o], n) /\ n \in DOMAIN ps[o].pages /\ k \in DOMAIN ps[r].pages
      BY <1>1, <1>2 DEF At
    <2>2. Recent(ps[r], k)
      <3>1. CASE <<r, k>> = <<p, i>>
        BY <3>1
      <3>2. CASE <<r, k>> # <<p, i>>
        <4>1. Ahead(list, <<r, k>>, <<o, n>>)
          BY <1>2, <3>2, Zenon DEF ToHead
        <4>2. QED
          BY <1>1, <1>2, <2>1, <4>1, Zenon DEF OrderPlain
      <3>3. QED
        BY <3>1, <3>2
    <2>3. QED
      BY <1>1, <1>2, <2>2 DEF Recent
  <1>3. QED
    BY <1>2, Zenon DEF OrderPlain

(* Queue and list stay in step after a page fault. *)
LEMMA WaitFault ==
  ASSUME KInv, cpu # Idle, NEW S, CorePlain(mem, pcbs, lru, S), WaitPlain(pcbs, lru, queue),
         NEW p, p = cpu.pid, NEW i, Ran(pcbs[p]) = 3 * i, i \in Nat,
         NEW ps2, SameLines(pcbs, ps2), NEW list2, ToHead(lru, p, i, list2)
  PROVE  WaitPlain(ps2, list2, Append(queue, p))
  <1>1. /\ DOMAIN ps2 = DOMAIN pcbs
        /\ \A r \in DOMAIN pcbs : /\ DOMAIN ps2[r].pages = DOMAIN pcbs[r].pages
                                  /\ ps2[r].size = pcbs[r].size /\ Ran(ps2[r]) = Ran(pcbs[r])
    BY SameLinesIs
  <1>2. /\ queue \in Seq(DOMAIN pcbs) /\ p \in DOMAIN pcbs
        /\ \A o : In(o, queue) => o # p /\ o \in DOMAIN pcbs
    BY NotQueued
  <1>3. ASSUME NEW r \in DOMAIN ps2, NEW o \in DOMAIN ps2, ps2[o].size > 0,
               Ahead(Append(queue, p), r, o),
               NEW n \in DOMAIN ps2[o].pages, NEW k \in DOMAIN ps2[r].pages, At(ps2[o], n),
               Ahead(list2, <<r, k>>, <<o, n>>)
        PROVE  FALSE
    <2>1. (In(r, queue) /\ o = p) \/ Ahead(queue, r, o)
      BY <1>2, <1>3, AheadAppend
    <2>2. r # p
      BY <1>2, <2>1, AheadIn
    <2>3. <<r, k>> # <<p, i>>
      BY <2>2
    <2>4. <<o, n>> # <<p, i>> /\ Ahead(lru, <<r, k>>, <<o, n>>)
      BY <1>3, <2>3, Zenon DEF ToHead
    <2>5. /\ n \in DOMAIN pcbs[o].pages /\ k \in DOMAIN pcbs[r].pages /\ At(pcbs[o], n)
          /\ pcbs[o].size > 0 /\ o \in DOMAIN pcbs /\ r \in DOMAIN pcbs
      BY <1>1, <1>3 DEF At
    <2>6. CASE o = p
      <3>1. n \in Nat
        <4>1. PagesPlain(mem, pcbs, S) /\ PcbsOK(pcbs)
          BY DEF CorePlain, KInv
        <4>2. QED
          BY <2>5, <4>1, RanIs
      <3>2. n = i
        BY <2>5, <2>6, <3>1 DEF At
      <3>3. QED
        BY <2>4, <2>6, <3>2
    <2>7. CASE o # p
      <3>1. Ahead(queue, r, o)
        BY <2>1, <2>7
      <3>2. QED
        BY <2>4, <2>5, <3>1, Zenon DEF WaitPlain
    <2>8. QED
      BY <2>6, <2>7
  <1>4. QED
    BY <1>3, Zenon DEF WaitPlain

(* No process is more than a turn behind after a page fault. *)
LEMMA SyncFault ==
  ASSUME KInv, cpu # Idle, NEW S, CorePlain(mem, pcbs, lru, S), SyncPlain(pcbs, queue, cpu),
         NEW p, p = cpu.pid, NEW i, Ran(pcbs[p]) = 3 * i, i \in Nat, i >= 2,
         NEW ps2, SameLines(pcbs, ps2)
  PROVE  SyncPlain(ps2, Append(queue, p), Idle)
  <1>1. /\ DOMAIN ps2 = DOMAIN pcbs
        /\ \A r \in DOMAIN pcbs : ps2[r].size = pcbs[r].size /\ Ran(ps2[r]) = Ran(pcbs[r])
    BY SameLinesIs
  <1>2. /\ queue \in Seq(DOMAIN pcbs) /\ p \in DOMAIN pcbs
        /\ \A o : In(o, queue) => o # p /\ o \in DOMAIN pcbs
    BY NotQueued
  <1>3. 0 \notin DOMAIN pcbs
    BY NoneIsNoPid DEF KInv
  <1>4. ASSUME NEW o \in DOMAIN ps2, ps2[o].size > 0, Ran(ps2[o]) < 3, NEW r \in DOMAIN ps2 \ {o}
        PROVE  /\ Ran(ps2[r]) <= Ran(ps2[o]) + 2
               /\ Ahead(Append(queue, p), r, o) => Ran(ps2[r]) <= Ran(ps2[o])
    <2>1. pcbs[o].size > 0 /\ Ran(pcbs[o]) < 3 /\ o \in DOMAIN pcbs /\ r \in DOMAIN pcbs \ {o}
      BY <1>1, <1>4
    <2>2. /\ Ran(pcbs[r]) <= Ran(pcbs[o]) + 2
          /\ Ahead(queue, r, o) => Ran(pcbs[r]) <= Ran(pcbs[o])
      BY <2>1, Zenon DEF SyncPlain
    <2>3. o # p
      BY <2>1
    <2>4. Ahead(Append(queue, p), r, o) => Ahead(queue, r, o)
      BY <1>2, <2>3, AheadAppend
    <2>5. QED
      BY <1>1, <2>1, <2>2, <2>4
  <1>5. Idle.pid = 0
    BY DEF Idle
  <1>6. QED
    BY <1>1, <1>3, <1>4, <1>5, Zenon DEF SyncPlain

(* In its first two pages a process gives up its turn after an even number *)
(* of lines only.                                                          *)
LEMMA EvenFault ==
  ASSUME KInv, cpu # Idle, EvenPlain(pcbs, cpu),
         NEW p, p = cpu.pid, NEW i, Ran(pcbs[p]) = 3 * i, i \in Nat, i >= 2,
         NEW ps2, SameLines(pcbs, ps2)
  PROVE  EvenPlain(ps2, Idle)
  <1>1. /\ DOMAIN ps2 = DOMAIN pcbs
        /\ \A r \in DOMAIN pcbs : ps2[r].size = pcbs[r].size /\ Ran(ps2[r]) = Ran(pcbs[r])
    BY SameLinesIs
  <1>2. 0 \notin DOMAIN pcbs /\ Idle.pid = 0
    BY NoneIsNoPid DEF KInv, Idle
  <1>3. ASSUME NEW r \in DOMAIN ps2, Ran(ps2[r]) < 6, ps2[r].size > 0
        PROVE  Ran(ps2[r]) % 2 = 0
    <2>1. r # p /\ Ran(pcbs[r]) < 6 /\ pcbs[r].size > 0 /\ r \in DOMAIN pcbs
      BY <1>1, <1>3
    <2>2. Ran(pcbs[r]) % 2 = 0
      BY <2>1, Zenon DEF EvenPlain
    <2>3. QED
      BY <1>1, <2>1, <2>2
  <1>4. QED
    BY <1>1, <1>2, <1>3, Zenon DEF EvenPlain

(* The process that faulted is at the end of the queue. *)
LEMMA FaultQueue ==
  ASSUME NEW p, NEW i, NEW ps, Fault(p, i, ps)
  PROVE  queue' = Append(queue, p) /\ cpu' = Idle
  BY DEF Fault, Loads

(* A page fault keeps the invariant. *)
LEMMA PageFaultPlain ==
  ASSUME KInv, PlainInv, PageFault
  PROVE  PlainInv'
  <1>. DEFINE S == Starts(Lost(mem, pcbs))
              p == cpu.pid
  <1>1. PICK i \in DOMAIN pcbs[p].pages :
          Current(p, i) /\ ~ValidHere(p, i) /\ Fault(p, i, pcbs)
    BY DEF PageFault
  <1>2. phase = "running" /\ cpu # Idle /\ phase' = phase /\ executed' = executed
    BY DEF PageFault
  <1>3. /\ CorePlain(mem, pcbs, lru, S)
        /\ WaitPlain(pcbs, lru, queue) /\ SyncPlain(pcbs, queue, cpu)
        /\ EvenPlain(pcbs, cpu) /\ RanPlain(pcbs, executed)
    BY DEF PlainInv
  <1>. HIDE DEF S, p
  <1>4. /\ FramesPlain(mem', pcbs', S) /\ ListPlain(pcbs', lru') /\ TwoRead(pcbs')
        /\ SameLines(pcbs, pcbs') /\ ToHead(lru, p, i, lru')
        /\ p \in DOMAIN pcbs /\ i \in DOMAIN pcbs[p].pages
        /\ Ran(pcbs[p]) = 3 * i /\ i >= 2 /\ i \in Nat
    BY <1>1, <1>2, <1>3, FaultPlain DEF p
  <1>5. /\ DOMAIN pcbs' = DOMAIN pcbs /\ Base(pcbs') = Base(pcbs)
        /\ \A r \in DOMAIN pcbs : Ran(pcbs'[r]) = Ran(pcbs[r])
    BY <1>4, SameLinesIs
  <1>6. S = Starts(Lost(mem', pcbs'))
    BY <1>4, Zenon DEF FramesPlain
  <1>7. BasePlain(pcbs', S)
    BY <1>3, <1>5, Zenon DEF CorePlain, BasePlain
  <1>8. OrderPlain(pcbs', lru')
    <2>1. Recent(pcbs[p], i)
      BY <1>4 DEF Recent
    <2>2. OrderPlain(pcbs, lru)
      BY <1>3, Zenon DEF CorePlain
    <2>3. QED
      BY <1>4, <2>1, <2>2, OrderToHead
  <1>9. CorePlain(mem', pcbs', lru', S)
    BY <1>4, <1>6, <1>7, <1>8, Zenon DEF CorePlain, FramesPlain
  <1>10. queue' = Append(queue, p) /\ cpu' = Idle
    BY <1>1, FaultQueue
  <1>11. WaitPlain(pcbs', lru', queue')
    BY <1>2, <1>3, <1>4, <1>10, WaitFault DEF p
  <1>12. SyncPlain(pcbs', queue', cpu')
    BY <1>2, <1>3, <1>4, <1>10, SyncFault DEF p
  <1>13. EvenPlain(pcbs', cpu')
    BY <1>2, <1>3, <1>4, <1>10, EvenFault DEF p
  <1>14. TurnPlain(pcbs', lru', cpu')
    BY <1>10 DEF TurnPlain
  <1>15. RanPlain(pcbs', executed')
    <2>1. ASSUME NEW r \in DOMAIN pcbs' PROVE executed'[r] = [n \in 1 .. Ran(pcbs'[r]) |-> <<r, n>>]
      <3>1. executed[r] = [n \in 1 .. Ran(pcbs[r]) |-> <<r, n>>] /\ Ran(pcbs'[r]) = Ran(pcbs[r])
        BY <1>3, <1>5, <2>1, Zenon DEF RanPlain
      <3>2. QED
        BY <1>2, <3>1, Zenon
    <2>2. QED
      BY <2>1, Zenon DEF RanPlain
  <1>16. phase' # "loading"
    BY <1>2
  <1>17. QED
    BY <1>6, <1>9, <1>11, <1>12, <1>13, <1>14, <1>15, <1>16 DEF PlainInv

-----------------------------------------------------------------------------
(* A line that runs: the next one of its process, which does not return 1. *)

LEMMA LinePlain ==
  ASSUME KInv, cpu # Idle, NEW S, CorePlain(mem, pcbs, lru, S), NEW p, p = cpu.pid,
         NEW i, Current(p, i), ValidHere(p, i)
  PROVE  /\ p \in DOMAIN pcbs /\ i \in DOMAIN pcbs[p].pages /\ i \in Nat /\ At(pcbs[p], i)
         /\ pcbs[p].size >= cpu.left /\ cpu.left \in 1 .. 2 /\ cpu.requeue \in BOOLEAN
         /\ Here(pcbs[p], i) /\ 3 * i < pcbs[p].fpos
         /\ LineAt(p, i) = <<p, Ran(pcbs[p]) + 1>> /\ ~ReturnsOne(LineAt(p, i))
  <1>1. PICK q : q = pcbs[p]
    OBVIOUS
  <1>2. i \in DOMAIN pcbs[cpu.pid].pages /\ Current(cpu.pid, i)
    BY DEF Current
  <1>3. /\ cpu \in [pid : DOMAIN pcbs, left : 1 .. 2, requeue : BOOLEAN]
        /\ pcbs[cpu.pid].size >= cpu.left
    BY <1>2, RunningIs
  <1>4. p \in DOMAIN pcbs /\ q.size >= cpu.left /\ cpu.left \in 1 .. 2 /\ i \in DOMAIN q.pages
    BY <1>1, <1>2, <1>3
  <1>5. PagesPlain(mem, pcbs, S) /\ PcbsOK(pcbs)
    BY Zenon DEF CorePlain, KInv
  <1>6. /\ PcbPlain(q) /\ q \in PcbType /\ Ran(q) \in Nat /\ Size(q) \in Nat /\ q.size \in Nat
        /\ Ran(q) = Size(q) - q.size /\ i \in Nat
    BY <1>1, <1>4, <1>5, RanIs
  <1>7. At(q, i) /\ q.pages[i].pc = Ran(q) - 3 * i
    BY <1>1, <1>4, <1>6, CurrentIs
  <1>8. PICK j : j = Ran(q) - 3 * i
    OBVIOUS
  <1>9. j \in Offset /\ 3 * i + j = Ran(q) /\ 3 * i + j < Size(q)
    <2>1. 1 <= q.size
      <3>1. PICK left \in 1 .. 2 : q.size >= left
        BY <1>4
      <3>2. QED
        BY <1>6, <3>1
    <2>2. 3 * i <= Ran(q) /\ Ran(q) < 3 * i + 3
      BY <1>7 DEF At
    <2>3. QED
      BY <1>6, <1>8, <2>1, <2>2 DEF Offset
  <1>10. q.pages[i].valid[j]
    BY <1>1, <1>7, <1>8 DEF ValidHere
  <1>11. PageHere(mem, p, q, i, S)
    BY <1>1, <1>4, <1>5, <1>9, <1>10, Zenon DEF PagesPlain, PageAway
  <1>12. 3 * i < q.fpos /\ q.pages[i].valid[0]
    <2>1. 0 \in Offset /\ 3 * i + 0 < Size(q)
      BY <1>6, <1>9 DEF Offset
    <2>2. QED
      BY <1>11, <2>1, Zenon DEF PageHere
  <1>13. mem[q.pages[i].index[j]].value = <<p, 3 * i + j + 1>>
    BY <1>9, <1>11, Zenon DEF PageHere
  <1>14. LineAt(p, i) = <<p, Ran(q) + 1>>
    BY <1>1, <1>7, <1>8, <1>9, <1>13, Zenon DEF LineAt
  <1>15. ~ReturnsOne(LineAt(p, i))
    <2>1. q.script.lines[Ran(q) + 1] = "ok"
      <3>1. Ran(q) + 1 \in 1 .. Len(q.script.lines)
        BY <1>6, <1>9 DEF Size
      <3>2. QED
        BY <1>6, <3>1 DEF PcbPlain, Plain
    <2>2. <<p, Ran(q) + 1>>[1] = p /\ <<p, Ran(q) + 1>>[2] = Ran(q) + 1
      OBVIOUS
    <2>3. pcbs[<<p, Ran(q) + 1>>[1]].script.lines[<<p, Ran(q) + 1>>[2]] = "ok"
      BY <1>1, <2>1, <2>2, Zenon
    <2>4. ~ReturnsOne(<<p, Ran(q) + 1>>)
      BY <2>3 DEF ReturnsOne
    <2>5. QED
      BY <1>14, <2>4
  <1>16. QED
    BY <1>1, <1>3, <1>4, <1>6, <1>7, <1>12, <1>14, <1>15 DEF Here

(* No line of a plain script is taken for a page fault. *)
LEMMA ReturnOnePlain ==
  ASSUME KInv, PlainInv, ReturnOne
  PROVE  FALSE
  <1>1. PICK i \in DOMAIN pcbs[cpu.pid].pages :
          /\ Current(cpu.pid, i) /\ ValidHere(cpu.pid, i) /\ ReturnsOne(LineAt(cpu.pid, i))
    BY DEF ReturnOne
  <1>2. cpu # Idle
    BY DEF ReturnOne
  <1>3. PICK S : CorePlain(mem, pcbs, lru, S)
    BY DEF PlainInv
  <1>4. QED
    BY <1>1, <1>2, <1>3, LinePlain

(* Its page moves to the head of the list, and no other. *)
LEMMA TouchedPlain ==
  ASSUME lru \in Seq(Pid \X Nat), NEW m, NEW S, FramesPlain(m, pcbs, S), ListPlain(pcbs, lru),
         ListOK(pcbs, lru), NEW p \in DOMAIN pcbs, NEW i \in DOMAIN pcbs[p].pages,
         Here(pcbs[p], i), NEW n \in 1 .. Len(lru), Entry(n, p, i)
  PROVE  /\ ToHead(lru, p, i, Touched(n)) /\ Distinct(Touched(n))
         /\ \A d : In(d, Touched(n)) <=> In(d, lru)
  <1>1. PICK e : e = lru[n]
    OBVIOUS
  <1>2. e \in Pid \X Nat /\ In(e, lru)
    BY <1>1 DEF In
  <1>3. PICK r \in Pid, h \in Nat : e = <<r, h>>
    BY <1>2
  <1>4. r \in DOMAIN pcbs /\ h \in DOMAIN pcbs[r].pages
    BY <1>2, <1>3 DEF ListOK
  <1>5. Here(pcbs[r], h)
    BY <1>2, <1>3, <1>4, Zenon DEF ListPlain
  <1>6. pcbs[r].pages[h].index[0] = pcbs[p].pages[i].index[0]
    <2>1. StartOf(e) = StartOf(<<p, i>>)
      BY <1>1, Zenon DEF Entry
    <2>2. StartOf(<<p, i>>) = pcbs[p].pages[i].index[0]
      BY DEF StartOf
    <2>3. StartOf(e) = pcbs[r].pages[h].index[0]
      BY <1>3 DEF StartOf
    <2>4. QED
      BY <2>1, <2>2, <2>3, Zenon
  <1>7. r = p /\ h = i
    <2>1. PagesPlain(m, pcbs, S)
      BY DEF FramesPlain
    <2>2. QED
      BY <1>4, <1>5, <1>6, <2>1, OneFrameEach
  <1>8. PICK list : list = Without(lru, n)
    OBVIOUS
  <1>9. /\ Distinct(list) /\ ~In(<<p, i>>, list) /\ list \in Seq(Pid \X Nat)
        /\ \A c, d : Ahead(list, c, d) => Ahead(lru, c, d)
    <2>1. Distinct(lru)
      BY Zenon DEF ListPlain
    <2>2. QED
      BY <1>1, <1>3, <1>7, <1>8, <2>1, AheadWithout, WithoutIs
  <1>10. Touched(n) = <<<<p, i>>>> \o list
    BY <1>1, <1>3, <1>7, <1>8, TouchedIs
  <1>11. <<p, i>> \in Pid \X Nat
    BY <1>3, <1>7
  <1>12. /\ Distinct(<<<<p, i>>>> \o list)
         /\ \A c, d : Ahead(<<<<p, i>>>> \o list, c, d) =>
                        (c = <<p, i>> /\ In(d, list)) \/ Ahead(list, c, d)
    BY <1>9, <1>11, AheadPush
  <1>13. Pushed(p, i, list)
    BY <1>9, <1>12, Zenon DEF Pushed
  <1>14. ToHead(lru, p, i, Touched(n))
    BY <1>9, <1>10, <1>13, PushedToHead
  <1>15. \A d : In(d, Touched(n)) <=> In(d, lru)
    BY InTouched
  <1>16. QED
    BY <1>10, <1>12, <1>14, <1>15

(* ps2 is ps after one more line of process p. *)
OneMore(ps, p, ps2) ==
  /\ DOMAIN ps2 = DOMAIN ps
  /\ \A r \in DOMAIN ps : /\ DOMAIN ps2[r].pages = DOMAIN ps[r].pages
                          /\ ps2[r].script = ps[r].script
                          /\ r # p => ps2[r].size = ps[r].size /\ Ran(ps2[r]) = Ran(ps[r])
  /\ ps2[p].size = ps[p].size - 1 /\ Ran(ps2[p]) = Ran(ps[p]) + 1

(* A line that runs keeps what the page tables, frames and list say. *)
LEMMA RunLinePlain ==
  ASSUME KInv, NEW S, CorePlain(mem, pcbs, lru, S), RunLine, NEW p, p = cpu.pid
  PROVE  \E i \in DOMAIN pcbs[p].pages :
           /\ Current(p, i) /\ ValidHere(p, i) /\ Record(p, i) /\ EndLine(p)
           /\ FramesPlain(mem', pcbs', S) /\ ListPlain(pcbs', lru') /\ TwoRead(pcbs')
           /\ BasePlain(pcbs', S) /\ OneMore(pcbs, p, pcbs') /\ ToHead(lru, p, i, lru')
  <1>1. PICK i \in DOMAIN pcbs[p].pages :
          /\ Current(p, i) /\ ValidHere(p, i) /\ Record(p, i) /\ EndLine(p)
          /\ \E n \in 1 .. Len(lru) : Entry(n, p, i) /\ lru' = Touched(n)
          /\ pcbs' = [pcbs EXCEPT ![p] = Advanced(p, i)]
    BY DEF RunLine
  <1>2. PICK n \in 1 .. Len(lru) : Entry(n, p, i) /\ lru' = Touched(n)
    BY <1>1
  <1>3. cpu # Idle /\ mem' = mem
    BY DEF RunLine
  <1>4. /\ p \in DOMAIN pcbs /\ i \in DOMAIN pcbs[p].pages /\ At(pcbs[p], i)
        /\ pcbs[p].size >= cpu.left /\ cpu.left \in 1 .. 2
        /\ Here(pcbs[p], i) /\ 3 * i < pcbs[p].fpos
    BY <1>1, <1>3, LinePlain
  <1>5. /\ PcbsOK(pcbs) /\ ListOK(pcbs, lru) /\ lru \in Seq(Pid \X Nat)
    BY DEF KInv, ListOK
  <1>6. /\ FramesPlain(mem, pcbs, S) /\ ListPlain(pcbs, lru) /\ TwoRead(pcbs) /\ BasePlain(pcbs, S)
    BY <1>5, NoneIsNoPid, Zenon DEF CorePlain, FramesPlain
  <1>7. PICK q : q = pcbs[p]
    OBVIOUS
  <1>8. /\ q \in PcbType /\ PcbPlain(q) /\ q.size \in Nat
    BY <1>4, <1>5, <1>6, <1>7, RanIs DEF FramesPlain
  <1>9. q.size > 0
    <2>1. PICK left \in 1 .. 2 : q.size >= left
      BY <1>4, <1>7
    <2>2. QED
      BY <1>8, <2>1
  <1>10. PICK new : new = Advanced(p, i)
    OBVIOUS
  <1>11. PcbPlain(new) /\ Size(new) = Size(q) /\ Ran(new) = Ran(q) + 1
    BY <1>4, <1>7, <1>8, <1>9, <1>10, AdvancedPlain
  <1>12. /\ new.script = q.script /\ new.size = q.size - 1 /\ new.fpos = q.fpos
         /\ DOMAIN new.pages = DOMAIN q.pages
         /\ \A h \in DOMAIN q.pages : h # i => new.pages[h] = q.pages[h]
         /\ new.pages[i].index = q.pages[i].index /\ new.pages[i].valid = q.pages[i].valid
    BY <1>4, <1>7, <1>8, <1>10, AdvancedIs
  <1>13. SamePages(q, new)
    BY <1>12, Zenon DEF SamePages
  <1>14. PICK ps2 : ps2 = pcbs'
    OBVIOUS
  <1>15. Becomes(pcbs, p, new, ps2)
    BY <1>1, <1>4, <1>10, <1>14 DEF Becomes
  <1>16. /\ FramesPlain(mem, ps2, S) /\ Base(ps2) = Base(pcbs)
         /\ \A list : ListPlain(pcbs, list) => ListPlain(ps2, list)
    BY <1>4, <1>6, <1>7, <1>8, <1>9, <1>11, <1>12, <1>13, <1>15, AdvanceFrames
  <1>17. /\ ToHead(lru, p, i, Touched(n)) /\ Distinct(Touched(n))
         /\ \A d : In(d, Touched(n)) <=> In(d, lru)
    BY <1>2, <1>4, <1>5, <1>6, TouchedPlain
  <1>18. ListPlain(ps2, lru')
    <2>1. ListPlain(ps2, lru)
      BY <1>6, <1>16
    <2>2. QED
      BY <1>2, <1>17, <2>1, Zenon DEF ListPlain
  <1>19. /\ DOMAIN ps2 = DOMAIN pcbs /\ ps2[p] = new
         /\ \A r \in DOMAIN pcbs : r # p => ps2[r] = pcbs[r]
    BY <1>15 DEF Becomes
  <1>20. OneMore(pcbs, p, ps2)
    <2>1. ASSUME NEW r \in DOMAIN pcbs
          PROVE  /\ DOMAIN ps2[r].pages = DOMAIN pcbs[r].pages
                 /\ ps2[r].script = pcbs[r].script
                 /\ r # p => ps2[r].size = pcbs[r].size /\ Ran(ps2[r]) = Ran(pcbs[r])
      <3>1. CASE r = p
        BY <1>7, <1>12, <1>19, <3>1
      <3>2. CASE r # p
        BY <1>19, <2>1, <3>2
      <3>3. QED
        BY <3>1, <3>2
    <2>2. ps2[p].size = pcbs[p].size - 1 /\ Ran(ps2[p]) = Ran(pcbs[p]) + 1
      BY <1>7, <1>11, <1>12, <1>19
    <2>3. QED
      BY <1>19, <2>1, <2>2, Zenon DEF OneMore
  <1>21. TwoRead(ps2)
    <2>1. ASSUME NEW r \in DOMAIN ps2 PROVE ps2[r].fpos = Size(ps2[r]) \/ ps2[r].fpos >= 6
      <3>1. pcbs[r].fpos = Size(pcbs[r]) \/ pcbs[r].fpos >= 6
        BY <1>6, <1>19, <2>1, Zenon DEF TwoRead
      <3>2. CASE r = p
        BY <1>7, <1>11, <1>12, <1>19, <3>1, <3>2
      <3>3. CASE r # p
        BY <1>19, <2>1, <3>1, <3>3
      <3>4. QED
        BY <3>2, <3>3
    <2>2. QED
      BY <2>1, Zenon DEF TwoRead
  <1>22. BasePlain(ps2, S)
    BY <1>6, <1>16, Zenon DEF BasePlain
  <1>23. /\ FramesPlain(mem', pcbs', S) /\ ListPlain(pcbs', lru') /\ TwoRead(pcbs')
         /\ BasePlain(pcbs', S) /\ OneMore(pcbs, p, pcbs') /\ ToHead(lru, p, i, lru')
    BY <1>2, <1>3, <1>14, <1>16, <1>17, <1>18, <1>20, <1>21, <1>22
  <1>24. QED
    BY <1>1, <1>23

(* What is in the list lies at most one page ahead. *)
LEMMA ListedNear ==
  ASSUME NEW m, NEW ps, NEW S, NEW list, CorePlain(m, ps, list, S), PcbsOK(ps),
         NEW r \in DOMAIN ps, NEW k \in DOMAIN ps[r].pages, In(<<r, k>>, list)
  PROVE  k <= 1 \/ 3 * k <= Ran(ps[r])
  <1>1. Here(ps[r], k) /\ PagesPlain(m, ps, S)
    BY Zenon DEF CorePlain, ListPlain
  <1>2. PICK q : q = ps[r]
    OBVIOUS
  <1>3. PageHere(m, r, q, k, S) /\ PcbPlain(q)
    BY <1>1, <1>2, IsHere DEF PagesPlain
  <1>4. QED
    BY <1>2, <1>3 DEF PageHere, PcbPlain

(* After a line the next one is on the page at the head of the list, or on *)
(* the second page of the process.                                         *)
LEMMA NextPage ==
  ASSUME NEW m, NEW ps, NEW S, NEW list, CorePlain(m, ps, list, S), PcbsOK(ps),
         NEW p \in DOMAIN ps, NEW i \in Nat, At(ps[p], i), NEW ps2, OneMore(ps, p, ps2),
         NEW n \in DOMAIN ps2[p].pages, At(ps2[p], n), <<p, n>> # <<p, i>>, In(<<p, n>>, list)
  PROVE  n = 1 /\ Ran(ps[p]) = 2
  <1>1. n \in DOMAIN ps[p].pages /\ Ran(ps2[p]) = Ran(ps[p]) + 1
    BY DEF OneMore
  <1>2. PICK R : R = Ran(ps[p])
    OBVIOUS
  <1>3. R \in Nat /\ n \in Nat
    <2>1. PagesPlain(m, ps, S)
      BY DEF CorePlain
    <2>2. QED
      BY <1>1, <1>2, <2>1, RanIs
  <1>4. n <= 1 \/ 3 * n <= R
    BY <1>1, <1>2, ListedNear
  <1>5. 3 * i <= R /\ R < 3 * i + 3 /\ 3 * n <= R + 1 /\ R + 1 < 3 * n + 3 /\ n # i
    BY <1>1, <1>2 DEF At
  <1>6. n = i + 1 /\ R + 1 = 3 * n
    BY <1>3, <1>5
  <1>7. QED
    BY <1>2, <1>3, <1>4, <1>6

(* Ahead of the page a process is at are recent pages only. *)
LEMMA OrderLine ==
  ASSUME KInv, cpu # Idle, NEW S, CorePlain(mem, pcbs, lru, S), TurnPlain(pcbs, lru, cpu),
         SyncPlain(pcbs, queue, cpu), NEW p, p = cpu.pid, p \in DOMAIN pcbs,
         NEW i \in Nat, At(pcbs[p], i), NEW ps2, OneMore(pcbs, p, ps2),
         NEW list2, ToHead(lru, p, i, list2)
  PROVE  OrderPlain(ps2, list2)
  <1>1. /\ DOMAIN ps2 = DOMAIN pcbs
        /\ \A r \in DOMAIN pcbs : /\ DOMAIN ps2[r].pages = DOMAIN pcbs[r].pages
                                  /\ r # p => ps2[r].size = pcbs[r].size /\ Ran(ps2[r]) = Ran(pcbs[r])
        /\ ps2[p].size = pcbs[p].size - 1 /\ Ran(ps2[p]) = Ran(pcbs[p]) + 1
    BY Zenon DEF OneMore
  <1>2. PcbsOK(pcbs) /\ PagesPlain(mem, pcbs, S) /\ OrderPlain(pcbs, lru)
    BY DEF KInv, CorePlain
  <1>3. \A r \in DOMAIN pcbs : Ran(pcbs[r]) \in Nat /\ pcbs[r].size \in Nat
    BY <1>2, RanIs
  <1>4. \A r \in DOMAIN pcbs : \A k \in DOMAIN pcbs[r].pages : k \in Nat
    BY <1>2, RanIs
  <1>5. ASSUME NEW o \in DOMAIN ps2, NEW n \in DOMAIN ps2[o].pages, ps2[o].size > 0, At(ps2[o], n),
               NEW r \in DOMAIN ps2, NEW k \in DOMAIN ps2[r].pages,
               Ahead(list2, <<r, k>>, <<o, n>>)
        PROVE  Recent(ps2[r], k)
    <2>1. /\ o \in DOMAIN pcbs /\ n \in DOMAIN pcbs[o].pages
          /\ r \in DOMAIN pcbs /\ k \in DOMAIN pcbs[r].pages /\ k \in Nat
      BY <1>1, <1>4, <1>5
    <2>2. <<o, n>> # <<p, i>> /\ (<<r, k>> = <<p, i>> \/ Ahead(lru, <<r, k>>, <<o, n>>))
      BY <1>5, Zenon DEF ToHead
    <2>3. CASE <<r, k>> = <<p, i>>
      <3>1. r = p /\ k = i
        BY <2>3
      <3>2. 3 * i <= Ran(pcbs[p]) /\ Ran(pcbs[p]) < 3 * i + 3
        BY DEF At
      <3>3. QED
        BY <1>1, <1>3, <3>1, <3>2 DEF Recent
    <2>4. CASE Ahead(lru, <<r, k>>, <<o, n>>) /\ o # p
      <3>1. pcbs[o].size > 0 /\ At(pcbs[o], n)
        BY <1>1, <1>5, <2>1, <2>4 DEF At
      <3>2. CASE r # p
        <4>1. Recent(pcbs[r], k)
          BY <1>2, <2>1, <2>4, <3>1, Zenon DEF OrderPlain
        <4>2. QED
          BY <1>1, <2>1, <3>2, <4>1 DEF Recent
      <3>3. CASE r = p
        <4>1. 3 * k < Ran(pcbs[p]) /\ Ran(pcbs[p]) <= 3 * k + 3
          BY <2>1, <2>4, <3>1, <3>3, Zenon DEF TurnPlain
        <4>2. QED
          BY <1>1, <1>3, <2>1, <3>3, <4>1 DEF Recent
      <3>4. QED
        BY <3>2, <3>3
    <2>5. CASE Ahead(lru, <<r, k>>, <<o, n>>) /\ o = p
      <3>1. In(<<p, n>>, lru) /\ In(<<r, k>>, lru)
        BY <2>5, AheadIn
      <3>2. n = 1 /\ Ran(pcbs[p]) = 2
        BY <1>2, <1>5, <2>2, <2>5, <3>1, NextPage
      <3>3. pcbs[p].size > 0
        BY <1>1, <1>3, <1>5, <2>1, <2>5
      <3>4. Ran(pcbs[r]) <= 4
        <4>1. CASE r = p
          BY <3>2, <4>1
        <4>2. CASE r # p
          <5>1. Ran(pcbs[p]) < 3 /\ r \in DOMAIN pcbs \ {p}
            BY <2>1, <3>2, <4>2
          <5>2. Ran(pcbs[r]) <= Ran(pcbs[p]) + 2
            BY <3>3, <5>1, Zenon DEF SyncPlain
          <5>3. QED
            BY <3>2, <5>2
        <4>3. QED
          BY <4>1, <4>2
      <3>5. k <= 1 \/ 3 * k <= Ran(pcbs[r])
        BY <1>2, <2>1, <3>1, ListedNear
      <3>6. (k = 0 \/ k = 1) /\ Ran(pcbs[r]) \in Nat
        BY <1>3, <2>1, <3>4, <3>5
      <3>7. Ran(ps2[r]) \in Nat /\ Ran(ps2[r]) <= 4
        <4>1. CASE r = p
          BY <1>1, <3>2, <4>1
        <4>2. CASE r # p
          BY <1>1, <2>1, <3>4, <3>6, <4>2
        <4>3. QED
          BY <4>1, <4>2
      <3>8. QED
        BY <3>6, <3>7 DEF Recent
    <2>6. QED
      BY <2>2, <2>3, <2>4, <2>5
  <1>6. QED
    BY <1>5, Zenon DEF OrderPlain

(* Queue and list stay in step after a line. *)
LEMMA WaitLine ==
  ASSUME KInv, cpu # Idle, NEW S, CorePlain(mem, pcbs, lru, S), WaitPlain(pcbs, lru, queue),
         EvenPlain(pcbs, cpu), NEW p, p = cpu.pid, p \in DOMAIN pcbs,
         NEW i \in Nat, At(pcbs[p], i), NEW ps2, OneMore(pcbs, p, ps2),
         NEW list2, ToHead(lru, p, i, list2), EndLine(p)
  PROVE  WaitPlain(ps2, list2, queue')
  <1>1. /\ DOMAIN ps2 = DOMAIN pcbs
        /\ \A r \in DOMAIN pcbs : /\ DOMAIN ps2[r].pages = DOMAIN pcbs[r].pages
                                  /\ r # p => ps2[r].size = pcbs[r].size /\ Ran(ps2[r]) = Ran(pcbs[r])
        /\ ps2[p].size = pcbs[p].size - 1 /\ Ran(ps2[p]) = Ran(pcbs[p]) + 1
    BY Zenon DEF OneMore
  <1>2. /\ queue \in Seq(DOMAIN pcbs) /\ \A o : In(o, queue) => o # p /\ o \in DOMAIN pcbs
    BY NotQueued
  <1>3. PcbsOK(pcbs) /\ PagesPlain(mem, pcbs, S)
    BY DEF KInv, CorePlain
  <1>4. \A r \in DOMAIN pcbs : Ran(pcbs[r]) \in Nat /\ pcbs[r].size \in Nat
    BY <1>3, RanIs
  <1>5. queue' = queue \/ (cpu.left = 1 /\ cpu.requeue /\ queue' = Append(queue, p))
    BY DEF EndLine
  <1>6. \A c, d : Ahead(queue', c, d) =>
          Ahead(queue, c, d) \/ (In(c, queue) /\ d = p /\ cpu.left = 1 /\ cpu.requeue)
    <2>1. \A c, d : Ahead(Append(queue, p), c, d) => (In(c, queue) /\ d = p) \/ Ahead(queue, c, d)
      BY <1>2, AheadAppend
    <2>2. QED
      BY <1>5, <2>1
  <1>7. ASSUME NEW r \in DOMAIN ps2, NEW o \in DOMAIN ps2, ps2[o].size > 0,
               Ahead(queue', r, o),
               NEW n \in DOMAIN ps2[o].pages, NEW k \in DOMAIN ps2[r].pages, At(ps2[o], n),
               Ahead(list2, <<r, k>>, <<o, n>>)
        PROVE  FALSE
    <2>1. Ahead(queue, r, o) \/ (In(r, queue) /\ o = p /\ cpu.left = 1 /\ cpu.requeue)
      BY <1>6, <1>7
    <2>2. r # p
      BY <1>2, <2>1, AheadIn
    <2>3. <<r, k>> # <<p, i>>
      BY <2>2
    <2>4. <<o, n>> # <<p, i>> /\ Ahead(lru, <<r, k>>, <<o, n>>)
      BY <1>7, <2>3, Zenon DEF ToHead
    <2>5. o \in DOMAIN pcbs /\ n \in DOMAIN pcbs[o].pages /\ r \in DOMAIN pcbs /\ k \in DOMAIN pcbs[r].pages
      BY <1>1, <1>7
    <2>6. CASE o = p
      <3>1. ~Ahead(queue, r, o)
        BY <1>2, <2>6, AheadIn
      <3>2. cpu.left = 1 /\ cpu.requeue
        BY <2>1, <3>1
      <3>3. In(<<p, n>>, lru)
        BY <2>4, <2>6, AheadIn
      <3>4. Ran(pcbs[p]) = 2
        BY <1>3, <1>7, <2>4, <2>6, <3>3, NextPage
      <3>5. pcbs[p].size > 0 /\ Ran(pcbs[p]) < 6
        BY <1>1, <1>4, <1>7, <2>5, <2>6, <3>4
      <3>6. (Ran(pcbs[p]) + cpu.left) % 2 = 0
        BY <3>2, <3>5, Zenon DEF EvenPlain
      <3>7. QED
        BY <3>2, <3>4, <3>6
    <2>7. CASE o # p
      <3>1. Ahead(queue, r, o) /\ pcbs[o].size > 0 /\ At(pcbs[o], n)
        BY <1>1, <1>7, <2>1, <2>5, <2>7 DEF At
      <3>2. QED
        BY <2>4, <2>5, <3>1, Zenon DEF WaitPlain
    <2>8. QED
      BY <2>6, <2>7
  <1>8. QED
    BY <1>7, Zenon DEF WaitPlain

(* Queue and list stay in step for the process that goes on with its turn. *)
LEMMA TurnLine ==
  ASSUME KInv, cpu # Idle, NEW S, CorePlain(mem, pcbs, lru, S), TurnPlain(pcbs, lru, cpu),
         NEW p, p = cpu.pid, p \in DOMAIN pcbs,
         NEW i \in Nat, At(pcbs[p], i), NEW ps2, OneMore(pcbs, p, ps2),
         NEW list2, ToHead(lru, p, i, list2), EndLine(p)
  PROVE  TurnPlain(ps2, list2, cpu')
  <1>1. /\ DOMAIN ps2 = DOMAIN pcbs
        /\ \A r \in DOMAIN pcbs : /\ DOMAIN ps2[r].pages = DOMAIN pcbs[r].pages
                                  /\ r # p => ps2[r].size = pcbs[r].size /\ Ran(ps2[r]) = Ran(pcbs[r])
        /\ Ran(ps2[p]) = Ran(pcbs[p]) + 1
    BY Zenon DEF OneMore
  <1>2. cpu \in [pid : DOMAIN pcbs, left : 1 .. 2, requeue : BOOLEAN]
    BY NotQueued
  <1>3. CASE cpu.left = 1
    BY <1>3 DEF EndLine, TurnPlain
  <1>4. CASE cpu.left = 2
    <2>1. cpu'.pid = p /\ cpu'.left = 1
      BY <1>2, <1>4 DEF EndLine
    <2>2. ASSUME NEW o \in DOMAIN ps2 \ {p}, ps2[o].size > 0,
                 NEW n \in DOMAIN ps2[o].pages, NEW k \in DOMAIN ps2[p].pages, At(ps2[o], n),
                 Ahead(list2, <<p, k>>, <<o, n>>)
          PROVE  3 * k < Ran(ps2[p]) /\ Ran(ps2[p]) <= 3 * k + 3
      <3>1. /\ o \in DOMAIN pcbs \ {p} /\ pcbs[o].size > 0 /\ At(pcbs[o], n)
            /\ n \in DOMAIN pcbs[o].pages /\ k \in DOMAIN pcbs[p].pages
        BY <1>1, <2>2 DEF At
      <3>2. ~Ahead(lru, <<p, k>>, <<o, n>>)
        <4>1. Ahead(lru, <<p, k>>, <<o, n>>) => cpu.left = 1
          BY <3>1, Zenon DEF TurnPlain
        <4>2. QED
          BY <1>4, <4>1
      <3>3. <<p, k>> = <<p, i>>
        BY <2>2, <3>2, Zenon DEF ToHead
      <3>4. k = i
        BY <3>3
      <3>5. 3 * i <= Ran(pcbs[p]) /\ Ran(pcbs[p]) < 3 * i + 3
        BY DEF At
      <3>6. Ran(pcbs[p]) \in Nat
        <4>1. PcbsOK(pcbs) /\ PagesPlain(mem, pcbs, S)
          BY DEF KInv, CorePlain
        <4>2. QED
          BY <4>1, RanIs
      <3>7. QED
        BY <1>1, <3>4, <3>5, <3>6
    <2>3. QED
      BY <2>1, <2>2, Zenon DEF TurnPlain
  <1>5. QED
    BY <1>2, <1>3, <1>4

(* What EndLine does to the queue and the turn. *)
LEMMA EndLineIs ==
  ASSUME KInv, cpu # Idle, NEW p, p = cpu.pid, EndLine(p)
  PROVE  /\ p \in DOMAIN pcbs /\ queue \in Seq(DOMAIN pcbs) /\ cpu.left \in 1 .. 2
         /\ \A o : In(o, queue) => o # p /\ o \in DOMAIN pcbs
         /\ \A c, d : Ahead(queue', c, d) =>
              Ahead(queue, c, d) \/ (In(c, queue) /\ d = p /\ cpu.left = 1 /\ cpu.requeue)
         /\ \/ cpu.left = 1 /\ cpu' = Idle
            \/ cpu.left = 2 /\ cpu'.pid = p /\ cpu'.left = 1 /\ cpu'.requeue = cpu.requeue
  <1>1. /\ cpu \in [pid : DOMAIN pcbs, left : 1 .. 2, requeue : BOOLEAN]
        /\ queue \in Seq(DOMAIN pcbs) /\ \A o : In(o, queue) => o # p /\ o \in DOMAIN pcbs
    BY NotQueued
  <1>2. queue' = queue \/ (cpu.left = 1 /\ cpu.requeue /\ queue' = Append(queue, p))
    BY DEF EndLine
  <1>3. \A c, d : Ahead(queue', c, d) =>
          Ahead(queue, c, d) \/ (In(c, queue) /\ d = p /\ cpu.left = 1 /\ cpu.requeue)
    <2>1. \A c, d : Ahead(Append(queue, p), c, d) => (In(c, queue) /\ d = p) \/ Ahead(queue, c, d)
      BY <1>1, AheadAppend
    <2>2. QED
      BY <1>2, <2>1
  <1>4. \/ cpu.left = 1 /\ cpu' = Idle
        \/ cpu.left = 2 /\ cpu'.pid = p /\ cpu'.left = 1 /\ cpu'.requeue = cpu.requeue
    <2>1. CASE cpu.left = 1
      BY <2>1 DEF EndLine
    <2>2. CASE cpu.left = 2
      BY <1>1, <2>2 DEF EndLine
    <2>3. QED
      BY <1>1, <2>1, <2>2
  <1>5. QED
    BY <1>1, <1>3, <1>4

(* No process is more than a turn behind after a line. *)
LEMMA SyncLine ==
  ASSUME KInv, cpu # Idle, NEW S, CorePlain(mem, pcbs, lru, S), SyncPlain(pcbs, queue, cpu),
         NEW p, p = cpu.pid, NEW ps2, OneMore(pcbs, p, ps2), EndLine(p)
  PROVE  SyncPlain(ps2, queue', cpu')
  <1>1. /\ DOMAIN ps2 = DOMAIN pcbs
        /\ \A r \in DOMAIN pcbs : r # p => ps2[r].size = pcbs[r].size /\ Ran(ps2[r]) = Ran(pcbs[r])
        /\ ps2[p].size = pcbs[p].size - 1 /\ Ran(ps2[p]) = Ran(pcbs[p]) + 1
    BY Zenon DEF OneMore
  <1>2. PcbsOK(pcbs) /\ PagesPlain(mem, pcbs, S)
    BY DEF KInv, CorePlain
  <1>3. \A r \in DOMAIN pcbs : Ran(pcbs[r]) \in Nat /\ pcbs[r].size \in Nat
    BY <1>2, RanIs
  <1>4. /\ p \in DOMAIN pcbs /\ \A o : In(o, queue) => o # p /\ o \in DOMAIN pcbs
        /\ \A c, d : Ahead(queue', c, d) =>
             Ahead(queue, c, d) \/ (In(c, queue) /\ d = p /\ cpu.left = 1 /\ cpu.requeue)
        /\ \/ cpu.left = 1 /\ cpu' = Idle
           \/ cpu.left = 2 /\ cpu'.pid = p /\ cpu'.left = 1 /\ cpu'.requeue = cpu.requeue
    BY EndLineIs
  <1>5. 0 \notin DOMAIN pcbs /\ Idle.pid = 0
    BY NoneIsNoPid DEF KInv, Idle
  <1>6. PICK left \in 1 .. 2 : left = cpu.left
    BY <1>4
  <1>7. ASSUME NEW o \in DOMAIN ps2, ps2[o].size > 0, Ran(ps2[o]) < 3, NEW r \in DOMAIN ps2 \ {o}
        PROVE  /\ Ran(ps2[r]) <= Ran(ps2[o]) + 2
               /\ Ahead(queue', r, o) => Ran(ps2[r]) <= Ran(ps2[o])
               /\ cpu'.pid = r => Ran(ps2[r]) + cpu'.left <= Ran(ps2[o]) + 2
               /\ cpu'.pid = o /\ cpu'.requeue => Ran(ps2[r]) <= Ran(ps2[o]) + cpu'.left
    <2>1. o \in DOMAIN pcbs /\ r \in DOMAIN pcbs \ {o}
      BY <1>1, <1>7
    <2>2. PICK a \in Nat, b \in Nat : a = Ran(pcbs[o]) /\ b = Ran(pcbs[r])
      BY <1>3, <2>1
    <2>3. pcbs[o].size > 0 /\ Ran(pcbs[o]) < 3
      <3>1. CASE o = p
        BY <1>1, <1>3, <1>7, <2>1, <3>1
      <3>2. CASE o # p
        BY <1>1, <1>7, <2>1, <3>2
      <3>3. QED
        BY <3>1, <3>2
    <2>4. /\ b <= a + 2
          /\ Ahead(queue, r, o) => b <= a
          /\ p = r => b + left <= a + 2
          /\ p = o /\ cpu.requeue => b <= a + left
      <3>1. /\ Ran(pcbs[r]) <= Ran(pcbs[o]) + 2
            /\ Ahead(queue, r, o) => Ran(pcbs[r]) <= Ran(pcbs[o])
            /\ cpu.pid = r => Ran(pcbs[r]) + cpu.left <= Ran(pcbs[o]) + 2
            /\ cpu.pid = o /\ cpu.requeue => Ran(pcbs[r]) <= Ran(pcbs[o]) + cpu.left
        BY <2>1, <2>3, Zenon DEF SyncPlain
      <3>2. QED
        BY <1>6, <2>2, <3>1
    <2>5. CASE o = p
      <3>1. Ran(ps2[o]) = a + 1 /\ Ran(ps2[r]) = b
        BY <1>1, <2>1, <2>2, <2>5
      <3>2. Ahead(queue', r, o) => left = 1 /\ cpu.requeue
        <4>1. ~Ahead(queue, r, o)
          BY <1>4, <2>5, AheadIn
        <4>2. QED
          BY <1>4, <1>6, <4>1
      <3>3. cpu'.pid = o => left = 2 /\ cpu'.left = 1 /\ cpu'.requeue = cpu.requeue
        BY <1>4, <1>5, <1>6, <2>1
      <3>4. cpu'.pid # r
        BY <1>4, <1>5, <2>1, <2>5
      <3>5. Ahead(queue', r, o) => b <= a + 1
        BY <2>4, <2>5, <3>2
      <3>6. cpu'.pid = o /\ cpu'.requeue => b <= (a + 1) + 1
        BY <2>4, <2>5, <3>3
      <3>7. b <= (a + 1) + 2
        BY <2>4
      <3>8. QED
        BY <3>1, <3>3, <3>4, <3>5, <3>6, <3>7
    <2>6. CASE o # p /\ r = p
      <3>1. Ran(ps2[o]) = a /\ Ran(ps2[r]) = b + 1
        BY <1>1, <2>1, <2>2, <2>6
      <3>2. ~Ahead(queue', r, o)
        BY <1>4, <2>6, AheadIn
      <3>3. cpu'.pid # o /\ (cpu'.pid = r => left = 2 /\ cpu'.left = 1)
        BY <1>4, <1>5, <1>6, <2>1, <2>6
      <3>4. b + 1 <= a + 2
        BY <2>4, <2>6
      <3>5. cpu'.pid = r => (b + 1) + 1 <= a + 2
        BY <2>4, <2>6, <3>3
      <3>6. QED
        BY <3>1, <3>2, <3>3, <3>4, <3>5
    <2>7. CASE o # p /\ r # p
      <3>1. Ran(ps2[o]) = a /\ Ran(ps2[r]) = b
        BY <1>1, <2>1, <2>2, <2>7
      <3>2. Ahead(queue', r, o) => Ahead(queue, r, o)
        BY <1>4, <2>7
      <3>3. cpu'.pid # o /\ cpu'.pid # r
        BY <1>4, <1>5, <2>1, <2>7
      <3>4. QED
        BY <2>4, <3>1, <3>2, <3>3
    <2>8. QED
      BY <2>5, <2>6, <2>7
  <1>8. QED
    BY <1>7, Zenon DEF SyncPlain

(* Turns end after an even number of lines, or with the last one. *)
LEMMA EvenLine ==
  ASSUME KInv, cpu # Idle, NEW S, CorePlain(mem, pcbs, lru, S), EvenPlain(pcbs, cpu),
         NEW p, p = cpu.pid, NEW ps2, OneMore(pcbs, p, ps2), EndLine(p)
  PROVE  EvenPlain(ps2, cpu')
  <1>1. /\ DOMAIN ps2 = DOMAIN pcbs
        /\ \A r \in DOMAIN pcbs : r # p => ps2[r].size = pcbs[r].size /\ Ran(ps2[r]) = Ran(pcbs[r])
        /\ ps2[p].size = pcbs[p].size - 1 /\ Ran(ps2[p]) = Ran(pcbs[p]) + 1
    BY Zenon DEF OneMore
  <1>2. PcbsOK(pcbs) /\ PagesPlain(mem, pcbs, S)
    BY DEF KInv, CorePlain
  <1>3. \A r \in DOMAIN pcbs : Ran(pcbs[r]) \in Nat /\ pcbs[r].size \in Nat
    BY <1>2, RanIs
  <1>4. /\ p \in DOMAIN pcbs
        /\ \/ cpu.left = 1 /\ cpu' = Idle
           \/ cpu.left = 2 /\ cpu'.pid = p /\ cpu'.left = 1 /\ cpu'.requeue = cpu.requeue
    BY EndLineIs
  <1>5. 0 \notin DOMAIN pcbs /\ Idle.pid = 0
    BY NoneIsNoPid DEF KInv, Idle
  <1>6. cpu.requeue \/ pcbs[p].size = cpu.left
    BY DEF KInv, TurnOK
  <1>7. ASSUME NEW r \in DOMAIN ps2, Ran(ps2[r]) < 6, ps2[r].size > 0
        PROVE  /\ cpu'.pid # r => Ran(ps2[r]) % 2 = 0
               /\ cpu'.pid = r /\ cpu'.requeue => (Ran(ps2[r]) + cpu'.left) % 2 = 0
    <2>1. r \in DOMAIN pcbs
      BY <1>1, <1>7
    <2>2. CASE r # p
      <3>1. Ran(ps2[r]) = Ran(pcbs[r]) /\ Ran(pcbs[r]) < 6 /\ pcbs[r].size > 0
        BY <1>1, <1>7, <2>1, <2>2
      <3>2. Ran(pcbs[r]) % 2 = 0
        BY <2>1, <2>2, <3>1, Zenon DEF EvenPlain
      <3>3. cpu'.pid # r
        BY <1>4, <1>5, <2>1, <2>2
      <3>4. QED
        BY <3>1, <3>2, <3>3
    <2>3. CASE r = p
      <3>1. PICK a \in Nat, z \in Nat : a = Ran(pcbs[p]) /\ z = pcbs[p].size
        BY <1>3, <1>4
      <3>2. Ran(ps2[r]) = a + 1 /\ ps2[r].size = z - 1 /\ a < 6 /\ z > 1
        BY <1>1, <1>7, <2>3, <3>1
      <3>3. Ran(pcbs[p]) < 6 /\ pcbs[p].size > 0
        BY <3>1, <3>2
      <3>4. cpu.requeue => (Ran(pcbs[p]) + cpu.left) % 2 = 0
        BY <1>4, <3>3, Zenon DEF EvenPlain
      <3>5. CASE cpu.left = 1 /\ cpu' = Idle
        <4>1. cpu.requeue
          BY <1>6, <3>1, <3>2, <3>5
        <4>2. (a + 1) % 2 = 0
          BY <3>1, <3>4, <3>5, <4>1
        <4>3. cpu'.pid # r
          BY <1>4, <1>5, <2>3, <3>5
        <4>4. QED
          BY <3>2, <4>2, <4>3
      <3>6. CASE cpu.left = 2 /\ cpu'.pid = p /\ cpu'.left = 1 /\ cpu'.requeue = cpu.requeue
        <4>1. cpu'.requeue => (a + 2) % 2 = 0
          BY <3>1, <3>4, <3>6
        <4>2. cpu'.requeue => ((a + 1) + 1) % 2 = 0
          BY <4>1
        <4>3. QED
          BY <2>3, <3>2, <3>6, <4>2
      <3>7. QED
        BY <1>4, <3>5, <3>6
    <2>4. QED
      BY <2>2, <2>3
  <1>8. QED
    BY <1>7, Zenon DEF EvenPlain

(* One more line is recorded. *)
LEMMA AppendLine ==
  ASSUME NEW p, NEW k \in Nat, NEW e, e = [n \in 1 .. k |-> <<p, n>>]
  PROVE  Append(e, <<p, k + 1>>) = [n \in 1 .. k + 1 |-> <<p, n>>]
  <1>. DEFINE T == {<<p, n>> : n \in Nat}
              new == Append(e, <<p, k + 1>>)
              all == [n \in 1 .. k + 1 |-> <<p, n>>]
  <1>1. e \in Seq(T) /\ Len(e) = k /\ <<p, k + 1>> \in T
    OBVIOUS
  <1>2. all \in Seq(T) /\ Len(all) = k + 1
    OBVIOUS
  <1>. HIDE DEF T
  <1>3. new \in Seq(T) /\ Len(new) = k + 1
    BY <1>1
  <1>4. \A n \in 1 .. k + 1 : new[n] = all[n]
    <2>1. ASSUME NEW n \in 1 .. k + 1 PROVE new[n] = <<p, n>>
      <3>1. CASE n = k + 1
        BY <1>1, <3>1
      <3>2. CASE n # k + 1
        <4>1. n \in 1 .. k
          BY <3>2
        <4>2. new[n] = e[n]
          BY <1>1, <4>1
        <4>3. QED
          BY <4>1, <4>2
      <3>3. QED
        BY <3>1, <3>2
    <2>2. QED
      BY <2>1
  <1>. HIDE DEF new, all
  <1>5. QED
    BY <1>2, <1>3, <1>4, SeqEqual DEF new, all

(* The lines run are the first ones of the script after one more line. *)
LEMMA RanLine ==
  ASSUME KInv, NEW S, CorePlain(mem, pcbs, lru, S), RanPlain(pcbs, executed),
         NEW p \in DOMAIN pcbs, NEW ps2, OneMore(pcbs, p, ps2),
         NEW i, Record(p, i), LineAt(p, i) = <<p, Ran(pcbs[p]) + 1>>
  PROVE  RanPlain(ps2, executed')
  <1>1. /\ DOMAIN ps2 = DOMAIN pcbs
        /\ \A r \in DOMAIN pcbs : r # p => Ran(ps2[r]) = Ran(pcbs[r])
        /\ Ran(ps2[p]) = Ran(pcbs[p]) + 1
    BY Zenon DEF OneMore
  <1>2. PICK k \in Nat : k = Ran(pcbs[p])
    <2>1. PcbsOK(pcbs) /\ PagesPlain(mem, pcbs, S)
      BY DEF KInv, CorePlain
    <2>2. QED
      BY <2>1, RanIs
  <1>3. /\ DOMAIN executed = DOMAIN pcbs
        /\ executed' = [executed EXCEPT ![p] = Append(executed[p], <<p, k + 1>>)]
    BY <1>2 DEF KInv, Record
  <1>4. PICK e : e = executed[p]
    OBVIOUS
  <1>5. e = [n \in 1 .. k |-> <<p, n>>]
    BY <1>2, <1>4, Zenon DEF RanPlain
  <1>6. executed'[p] = Append(e, <<p, k + 1>>)
    BY <1>3, <1>4, Zenon
  <1>7. executed'[p] = [n \in 1 .. k + 1 |-> <<p, n>>]
    BY <1>5, <1>6, AppendLine
  <1>8. ASSUME NEW r \in DOMAIN ps2
        PROVE  executed'[r] = [n \in 1 .. Ran(ps2[r]) |-> <<r, n>>]
    <2>1. CASE r = p
      <3>1. Ran(ps2[p]) = k + 1
        BY <1>1, <1>2, Zenon
      <3>2. QED
        BY <1>7, <2>1, <3>1, Zenon
    <2>2. CASE r # p
      <3>1. executed'[r] = executed[r] /\ Ran(ps2[r]) = Ran(pcbs[r])
        BY <1>1, <1>3, <1>8, <2>2, Zenon
      <3>2. executed[r] = [n \in 1 .. Ran(pcbs[r]) |-> <<r, n>>]
        BY <1>1, <1>8, Zenon DEF RanPlain
      <3>3. QED
        BY <3>1, <3>2, Zenon
    <2>3. QED
      BY <2>1, <2>2
  <1>9. QED
    BY <1>8, Zenon DEF RanPlain

(* A line that runs keeps the invariant. *)
LEMMA RunLineKeepsPlain ==
  ASSUME KInv, PlainInv, RunLine
  PROVE  PlainInv'
  <1>. DEFINE S == Starts(Lost(mem, pcbs))
              p == cpu.pid
  <1>1. cpu # Idle /\ phase' = phase /\ phase = "running"
    BY DEF RunLine
  <1>2. /\ CorePlain(mem, pcbs, lru, S)
        /\ WaitPlain(pcbs, lru, queue) /\ TurnPlain(pcbs, lru, cpu)
        /\ SyncPlain(pcbs, queue, cpu) /\ EvenPlain(pcbs, cpu) /\ RanPlain(pcbs, executed)
    BY DEF PlainInv
  <1>. HIDE DEF S
  <1>3. PICK i \in DOMAIN pcbs[p].pages :
           /\ Current(p, i) /\ ValidHere(p, i) /\ Record(p, i) /\ EndLine(p)
           /\ FramesPlain(mem', pcbs', S) /\ ListPlain(pcbs', lru') /\ TwoRead(pcbs')
           /\ BasePlain(pcbs', S) /\ OneMore(pcbs, p, pcbs') /\ ToHead(lru, p, i, lru')
    BY <1>2, RunLinePlain
  <1>4. /\ p \in DOMAIN pcbs /\ i \in Nat /\ At(pcbs[p], i)
        /\ LineAt(p, i) = <<p, Ran(pcbs[p]) + 1>>
    BY <1>1, <1>2, <1>3, LinePlain
  <1>5. PICK r : r = p
    OBVIOUS
  <1>6. PICK ps2, list2 : ps2 = pcbs' /\ list2 = lru'
    OBVIOUS
  <1>7. OneMore(pcbs, r, ps2) /\ ToHead(lru, r, i, list2) /\ At(pcbs[r], i) /\ EndLine(r)
        /\ r \in DOMAIN pcbs /\ r = cpu.pid /\ Record(r, i) /\ LineAt(r, i) = <<r, Ran(pcbs[r]) + 1>>
    BY <1>3, <1>4, <1>5, <1>6, Zenon
  <1>8. OrderPlain(ps2, list2)
    BY <1>1, <1>2, <1>4, <1>7, OrderLine
  <1>9. WaitPlain(ps2, list2, queue')
    BY <1>1, <1>2, <1>4, <1>7, WaitLine
  <1>10. TurnPlain(ps2, list2, cpu')
    BY <1>1, <1>2, <1>4, <1>7, TurnLine
  <1>11. SyncPlain(ps2, queue', cpu')
    BY <1>1, <1>2, <1>7, SyncLine
  <1>12. EvenPlain(ps2, cpu')
    BY <1>1, <1>2, <1>7, EvenLine
  <1>13. RanPlain(ps2, executed')
    BY <1>2, <1>7, RanLine
  <1>14. S = Starts(Lost(mem', pcbs'))
    BY <1>3, Zenon DEF FramesPlain
  <1>15. CorePlain(mem', pcbs', lru', S)
    BY <1>3, <1>6, <1>8, <1>14, Zenon DEF CorePlain, FramesPlain
  <1>16. phase' # "loading"
    BY <1>1
  <1>17. QED
    BY <1>6, <1>9, <1>10, <1>11, <1>12, <1>13, <1>14, <1>15, <1>16 DEF PlainInv

-----------------------------------------------------------------------------
(* The head of the queue gets its turn.                                    *)

LEMMA DispatchIs ==
  ASSUME KInv, Dispatch, NEW p, p = Head(queue)
  PROVE  /\ p \in DOMAIN pcbs /\ cpu = Idle /\ 0 \notin DOMAIN pcbs /\ Idle.pid = 0
         /\ \A c, d : Ahead(queue', c, d) => Ahead(queue, c, d)
         /\ \A o \in DOMAIN pcbs \ {p} : pcbs[o].size > 0 => Ahead(queue, p, o)
         /\ \/ cpu' = Idle /\ pcbs[p].size = 0
            \/ cpu'.pid = p /\ cpu'.left = 2 /\ cpu' # Idle
            \/ cpu'.pid = p /\ cpu'.left = 1 /\ ~cpu'.requeue /\ cpu' # Idle
  <1>1. queue \in Seq(DOMAIN pcbs) /\ Waiting(queue, pcbs, cpu.pid) /\ cpu = Idle
    BY WaitingIs DEF KInv, Dispatch
  <1>2. queue # <<>>
    <2>1. ~QueueDone
      BY DEF Dispatch
    <2>2. PICK n \in 1 .. Len(queue) : TRUE
      BY <2>1 DEF QueueDone
    <2>3. QED
      BY <2>2
  <1>3. p \in DOMAIN pcbs /\ \A d : In(d, queue) <=> d = p \/ In(d, Tail(queue))
    BY <1>1, <1>2, TailDistinct DEF Waiting
  <1>4. /\ \A c, d : Ahead(Tail(queue), c, d) => Ahead(queue, c, d)
        /\ \A d : In(d, Tail(queue)) => Ahead(queue, p, d)
    BY <1>1, <1>2, AheadTail
  <1>5. 0 \notin DOMAIN pcbs /\ Idle.pid = 0
    BY NoneIsNoPid DEF KInv, Idle
  <1>6. PICK size \in Nat : size = pcbs[p].size
    BY <1>3 DEF KInv, PcbsOK, PcbType
  <1>7. /\ queue' = Tail(queue)
        /\ cpu' = IF size > 1 THEN [pid |-> p, left |-> 2, requeue |-> TRUE]
                  ELSE IF size = 1 THEN [pid |-> p, left |-> 1, requeue |-> FALSE]
                  ELSE Idle
    BY <1>6 DEF Dispatch
  <1>8. \/ cpu' = Idle /\ size = 0
        \/ cpu'.pid = p /\ cpu'.left = 2 /\ cpu' # Idle
        \/ cpu'.pid = p /\ cpu'.left = 1 /\ ~cpu'.requeue /\ cpu' # Idle
    <2>1. CASE size > 1
      BY <1>7, <2>1 DEF Idle
    <2>2. CASE size = 1
      BY <1>7, <2>2 DEF Idle
    <2>3. CASE size = 0
      BY <1>7, <2>3
    <2>4. size > 1 \/ size = 1 \/ size = 0
      BY <1>6
    <2>5. QED
      BY <2>1, <2>2, <2>3, <2>4, Zenon
  <1>9. \A o \in DOMAIN pcbs \ {p} : pcbs[o].size > 0 => Ahead(queue, p, o)
    BY <1>1, <1>3, <1>4, <1>5 DEF Waiting
  <1>10. QED
    BY <1>1, <1>3, <1>4, <1>5, <1>6, <1>7, <1>8, <1>9

(* Starting a turn keeps the invariant. *)
LEMMA DispatchPlain ==
  ASSUME KInv, PlainInv, Dispatch
  PROVE  PlainInv'
  <1>. DEFINE S == Starts(Lost(mem, pcbs))
  <1>1. PICK p : p = Head(queue)
    OBVIOUS
  <1>2. /\ p \in DOMAIN pcbs /\ cpu = Idle /\ 0 \notin DOMAIN pcbs /\ Idle.pid = 0
        /\ \A c, d : Ahead(queue', c, d) => Ahead(queue, c, d)
        /\ \A o \in DOMAIN pcbs \ {p} : pcbs[o].size > 0 => Ahead(queue, p, o)
        /\ \/ cpu' = Idle /\ pcbs[p].size = 0
           \/ cpu'.pid = p /\ cpu'.left = 2 /\ cpu' # Idle
           \/ cpu'.pid = p /\ cpu'.left = 1 /\ ~cpu'.requeue /\ cpu' # Idle
    BY <1>1, DispatchIs
  <1>3. UNCHANGED <<mem, pcbs, lru, phase, executed>> /\ phase' = "running"
    BY DEF Dispatch
  <1>4. /\ CorePlain(mem, pcbs, lru, S)
        /\ WaitPlain(pcbs, lru, queue)
        /\ SyncPlain(pcbs, queue, cpu) /\ EvenPlain(pcbs, cpu) /\ RanPlain(pcbs, executed)
    BY DEF PlainInv
  <1>. HIDE DEF S
  <1>5. PcbsOK(pcbs) /\ PagesPlain(mem, pcbs, S)
    BY <1>4 DEF KInv, CorePlain
  <1>6. \A r \in DOMAIN pcbs : Ran(pcbs[r]) \in Nat /\ pcbs[r].size \in Nat
    BY <1>5, RanIs
  <1>7. WaitPlain(pcbs, lru, queue')
    BY <1>2, <1>4, Zenon DEF WaitPlain
  <1>8. TurnPlain(pcbs, lru, cpu')
    <2>1. CASE cpu' = Idle
      BY <2>1 DEF TurnPlain
    <2>2. CASE cpu'.pid = p
      <3>1. ASSUME NEW o \in DOMAIN pcbs \ {p}, pcbs[o].size > 0,
                   NEW i \in DOMAIN pcbs[o].pages, NEW k \in DOMAIN pcbs[p].pages,
                   At(pcbs[o], i), Ahead(lru, <<p, k>>, <<o, i>>)
            PROVE  FALSE
        BY <1>2, <1>4, <3>1, Zenon DEF WaitPlain
      <3>2. QED
        BY <2>2, <3>1, Zenon DEF TurnPlain
    <2>3. QED
      BY <1>2, <2>1, <2>2
  <1>9. SyncPlain(pcbs, queue', cpu')
    <2>1. ASSUME NEW o \in DOMAIN pcbs, pcbs[o].size > 0, Ran(pcbs[o]) < 3,
                 NEW r \in DOMAIN pcbs \ {o}
          PROVE  /\ Ran(pcbs[r]) <= Ran(pcbs[o]) + 2
                 /\ Ahead(queue', r, o) => Ran(pcbs[r]) <= Ran(pcbs[o])
                 /\ cpu'.pid = r => Ran(pcbs[r]) + cpu'.left <= Ran(pcbs[o]) + 2
                 /\ cpu'.pid = o /\ cpu'.requeue => Ran(pcbs[r]) <= Ran(pcbs[o]) + cpu'.left
      <3>1. PICK a \in Nat, b \in Nat : a = Ran(pcbs[o]) /\ b = Ran(pcbs[r])
        BY <1>6, <2>1
      <3>2. /\ Ran(pcbs[r]) <= Ran(pcbs[o]) + 2
            /\ Ahead(queue, r, o) => Ran(pcbs[r]) <= Ran(pcbs[o])
        BY <1>4, <2>1, Zenon DEF SyncPlain
      <3>3. cpu'.pid = r => b + cpu'.left <= a + 2
        <4>1. ASSUME cpu'.pid = r PROVE b + cpu'.left <= a + 2
          <5>1. r = p /\ (cpu'.left = 2 \/ cpu'.left = 1)
            BY <1>2, <2>1, <4>1
          <5>2. Ahead(queue, r, o)
            BY <1>2, <2>1, <5>1
          <5>3. QED
            BY <3>1, <3>2, <5>1, <5>2
        <4>2. QED
          BY <4>1
      <3>4. cpu'.pid = o /\ cpu'.requeue => b <= a + cpu'.left
        <4>1. ASSUME cpu'.pid = o, cpu'.requeue PROVE b <= a + cpu'.left
          <5>1. cpu'.left = 2
            BY <1>2, <2>1, <4>1
          <5>2. QED
            BY <3>1, <3>2, <5>1
        <4>2. QED
          BY <4>1
      <3>5. QED
        BY <1>2, <3>1, <3>2, <3>3, <3>4
    <2>2. QED
      BY <2>1, Zenon DEF SyncPlain
  <1>10. EvenPlain(pcbs, cpu')
    <2>1. ASSUME NEW r \in DOMAIN pcbs, Ran(pcbs[r]) < 6, pcbs[r].size > 0
          PROVE  /\ cpu'.pid # r => Ran(pcbs[r]) % 2 = 0
                 /\ cpu'.pid = r /\ cpu'.requeue => (Ran(pcbs[r]) + cpu'.left) % 2 = 0
      <3>1. PICK a \in Nat : a = Ran(pcbs[r])
        BY <1>6, <2>1
      <3>2. cpu.pid # r
        BY <1>2, <2>1
      <3>3. Ran(pcbs[r]) % 2 = 0
        BY <1>4, <2>1, <3>2, Zenon DEF EvenPlain
      <3>4. cpu'.pid = r /\ cpu'.requeue => cpu'.left = 2
        BY <1>2, <2>1
      <3>5. (a + 2) % 2 = 0
        BY <3>1, <3>3
      <3>6. QED
        BY <3>1, <3>3, <3>4, <3>5
    <2>2. QED
      BY <2>1, Zenon DEF EvenPlain
  <1>11. QED
    BY <1>3, <1>4, <1>7, <1>8, <1>9, <1>10 DEF PlainInv, S

-----------------------------------------------------------------------------
(* A new process.                                                          *)

(* count_lines counts the lines of a plain script. *)
LEMMA CountLinesIs ==
  ASSUME NEW s \in Script, Plain(s)
  PROVE  CountLines(s) = Len(s.lines) /\ Len(s.lines) \in Nat \ {0}
  <1>. DEFINE ended == {n \in 1 .. Len(s.lines) : s.lines[n] # "blank" /\ Terminated(s, n)}
  <1>1. s.lines \in Seq({"ok", "one", "blank"}) /\ s.lines # <<>>
    BY KernelAssumption DEF Plain
  <1>2. PICK k \in Nat \ {0} : k = Len(s.lines)
    BY <1>1
  <1>3. ended = 1 .. k - 1
    BY <1>2 DEF Plain, Terminated
  <1>4. Cardinality(1 .. k - 1) = k - 1
    BY <1>2, FS_Interval
  <1>5. CountLines(s) = Cardinality(ended) + 1
    BY DEF CountLines
  <1>. HIDE DEF ended
  <1>6. QED
    BY <1>2, <1>3, <1>4, <1>5

(* A new process is in order before its first page is loaded. *)
LEMMA FreshPlain ==
  ASSUME NEW s \in Script, Plain(s), NEW q, q = FreshPcb(s)
  PROVE  /\ q \in PcbType /\ PcbPlain(q) /\ q.fpos = 0 /\ q.script = s
         /\ Ran(q) = 0 /\ Size(q) \in Nat \ {0} /\ q.size = Size(q)
         /\ DOMAIN q.pages = {i \in 0 .. Size(q) : 3 * i < Size(q)}
         /\ \A i \in DOMAIN q.pages : PageAway(q, i) /\ ~Here(q, i)
  <1>1. PICK k \in Nat \ {0} : k = Len(s.lines) /\ k = CountLines(s)
    BY CountLinesIs
  <1>2. q \in PcbType /\ \A i \in DOMAIN q.pages : \A j \in Offset : ~q.pages[i].valid[j]
    BY FreshPcbType
  <1>. DEFINE n == PageTableSize(k)
              table == [i \in 0 .. n - 1 |-> UnloadedPage]
  <1>3. q = [script |-> s, size |-> k, fpos |-> 0, pages |-> table]
    BY <1>1 DEF FreshPcb
  <1>4. 0 .. n - 1 = {i \in 0 .. k : 3 * i < k}
    <2>1. \A i \in Nat : i \in 0 .. n - 1 <=> 3 * i < k
      BY <1>1 DEF PageTableSize
    <2>2. \A i \in Nat : 3 * i < k => i \in 0 .. k
      BY <1>1
    <2>3. n \in Int
      BY <1>1 DEF PageTableSize
    <2>. HIDE DEF n
    <2>4. QED
      BY <2>1, <2>2, <2>3
  <1>5. DOMAIN table = 0 .. n - 1 /\ \A i \in 0 .. n - 1 : table[i] = UnloadedPage
    OBVIOUS
  <1>. HIDE DEF n, table
  <1>6. q.script = s /\ q.size = k /\ q.fpos = 0 /\ q.pages = table
    BY <1>3
  <1>7. Size(q) = k /\ Ran(q) = 0
    <2>1. Size(q) = k
      BY <1>1, <1>6, Zenon DEF Size
    <2>2. Ran(q) = k - k
      BY <1>6, <2>1, Zenon DEF Ran
    <2>3. QED
      BY <1>1, <2>1, <2>2
  <1>8. DOMAIN q.pages = {i \in 0 .. Size(q) : 3 * i < Size(q)}
    BY <1>4, <1>5, <1>6, <1>7
  <1>9. \A i \in DOMAIN q.pages : q.pages[i].pc = 0 /\ i \in Nat
    BY <1>4, <1>5, <1>6 DEF UnloadedPage
  <1>10. PcbPlain(q)
    <2>1. \A i \in DOMAIN q.pages :
       /\ 3 * i < q.fpos => /\ q.fpos = Size(q) \/ 3 * i + 3 <= q.fpos
                            /\ i <= 1 \/ 3 * i <= Ran(q)
       /\ q.pages[i].pc = IF Ran(q) <= 3 * i THEN 0
                          ELSE IF 3 * i + 3 <= Ran(q) THEN 3 ELSE Ran(q) - 3 * i
      BY <1>6, <1>7, <1>9
    <2>2. q.size <= Size(q) /\ Ran(q) <= q.fpos /\ q.fpos <= Size(q)
      BY <1>1, <1>6, <1>7
    <2>3. QED
      BY <1>6, <1>8, <2>1, <2>2 DEF PcbPlain
  <1>11. \A i \in DOMAIN q.pages : PageAway(q, i) /\ ~Here(q, i)
    <2>1. 0 \in Offset
      BY DEF Offset
    <2>2. \A i \in DOMAIN q.pages : ~(3 * i < q.fpos)
      BY <1>6, <1>9
    <2>3. QED
      BY <1>2, <2>1, <2>2, Zenon DEF PageAway, Here
  <1>12. QED
    BY <1>1, <1>2, <1>6, <1>7, <1>8, <1>10, <1>11

(* Process p with its state q joins the processes ps. *)
Joins(ps, p, q, ps2) ==
  /\ p \notin DOMAIN ps /\ DOMAIN ps2 = DOMAIN ps \cup {p}
  /\ ps2[p] = q /\ \A r \in DOMAIN ps : ps2[r] = ps[r]

(* A process without pages changes nothing for the others. *)
LEMMA JoinFrames ==
  ASSUME NEW m, NEW ps, NEW S, FramesPlain(m, ps, S), NEW list, ListOK(ps, list), ListPlain(ps, list),
         NEW p \in Pid, \A x \in Frames : m[x].var # p,
         NEW q, PcbPlain(q), \A i \in DOMAIN q.pages : i \in Nat /\ PageAway(q, i) /\ ~Here(q, i),
         NEW ps2, Joins(ps, p, q, ps2)
  PROVE  FramesPlain(m, ps2, S) /\ ListPlain(ps2, list) /\ ListOK(ps2, list)
  <1>1. /\ p \notin DOMAIN ps /\ DOMAIN ps2 = DOMAIN ps \cup {p}
        /\ ps2[p] = q /\ \A r \in DOMAIN ps : ps2[r] = ps[r]
    BY DEF Joins
  <1>2. Lost(m, ps2) = Lost(m, ps)
    BY <1>1 DEF Lost
  <1>3. None \notin DOMAIN ps2
    BY <1>1, KernelAssumption DEF FramesPlain
  <1>4. PagesPlain(m, ps2, S)
    <2>1. ASSUME NEW r \in DOMAIN ps2
          PROVE  /\ PcbPlain(ps2[r])
                 /\ \A i \in DOMAIN ps2[r].pages : PageHere(m, r, ps2[r], i, S) \/ PageAway(ps2[r], i)
      <3>1. CASE r = p
        BY <1>1, <3>1, Zenon
      <3>2. CASE r # p
        <4>1. r \in DOMAIN ps /\ ps2[r] = ps[r]
          BY <1>1, <2>1, <3>2
        <4>2. QED
          BY <4>1, Zenon DEF FramesPlain, PagesPlain
      <3>3. QED
        BY <3>1, <3>2
    <2>2. QED
      BY <2>1, Zenon DEF PagesPlain
  <1>5. OwnedPlain(m, ps2)
    <2>1. ASSUME NEW x \in Frames, m[x].var \in DOMAIN ps2
          PROVE  \E i \in DOMAIN ps2[m[x].var].pages :
                   Here(ps2[m[x].var], i) /\ x \in Three(ps2[m[x].var].pages[i].index[0])
      <3>1. m[x].var \in DOMAIN ps /\ ps2[m[x].var] = ps[m[x].var]
        BY <1>1, <2>1
      <3>2. QED
        BY <2>1, <3>1, Zenon DEF FramesPlain, OwnedPlain
    <2>2. QED
      BY <2>1, Zenon DEF OwnedPlain
  <1>6. ListPlain(ps2, list)
    <2>1. ASSUME NEW r \in DOMAIN ps2, NEW i \in DOMAIN ps2[r].pages
          PROVE  Here(ps2[r], i) <=> In(<<r, i>>, list)
      <3>1. CASE r = p
        <4>1. ~Here(ps2[r], i) /\ i \in Nat
          BY <1>1, <2>1, <3>1, Zenon
        <4>2. ~In(<<p, i>>, list)
          BY <1>1, <4>1 DEF ListOK
        <4>3. QED
          BY <3>1, <4>1, <4>2
      <3>2. CASE r # p
        <4>1. r \in DOMAIN ps /\ ps2[r] = ps[r]
          BY <1>1, <2>1, <3>2
        <4>2. QED
          BY <2>1, <4>1, Zenon DEF ListPlain
      <3>3. QED
        BY <3>1, <3>2
    <2>2. QED
      BY <2>1, Zenon DEF ListPlain
  <1>7. ListOK(ps2, list)
    BY <1>1 DEF ListOK
  <1>8. QED
    BY <1>2, <1>3, <1>4, <1>5, <1>6, <1>7, Zenon DEF FramesPlain

(* PCB_init loads page i of process p with its state q into frame k. *)
FirstAt(m, ps, p, q, i, k, m2, new, ps2) ==
  /\ p \in DOMAIN ps /\ q = ps[p]
  /\ i \in {0, 1} /\ i \in DOMAIN q.pages /\ q.fpos = 3 * i
  /\ FirstFit(m, k) /\ m2 = LoadedMem(m, p, q, k)
  /\ new = LoadedPcb(q, i, k) /\ Becomes(ps, p, new, ps2)

(* The new process is in order after PCB_init read one of its first two    *)
(* pages.                                                                  *)
LEMMA LoadFirstPcb ==
  ASSUME NEW m, NEW ps, NEW p, NEW q, q \in PcbType, PcbPlain(q), NEW i, NEW k,
         NEW m2, NEW new, NEW ps2, FirstAt(m, ps, p, q, i, k, m2, new, ps2)
  PROVE  /\ new \in PcbType /\ PcbPlain(new) /\ Size(new) = Size(q) /\ Ran(new) = Ran(q)
         /\ new.fpos = Size(q) \/ new.fpos = 3 * i + 3
         /\ DOMAIN new.pages = DOMAIN q.pages
  <1>1. i \in {0, 1} /\ i \in DOMAIN q.pages /\ q.fpos = 3 * i /\ new = LoadedPcb(q, i, k)
    BY DEF FirstAt
  <1>2. k \in 0 .. FrameStoreSize - 3
    BY DEF FirstAt, FirstFit, Fits
  <1>3. new \in PcbType
    BY <1>1, <1>2, LoadedPcbType
  <1>4. /\ PcbPlain(new) /\ Size(new) = Size(q) /\ Ran(new) = Ran(q)
        /\ new.fpos = Size(q) \/ new.fpos = 3 * i + 3
    BY <1>1, <1>2, LoadedPlain
  <1>5. DOMAIN new.pages = DOMAIN q.pages
    BY <1>1, LoadedIs
  <1>6. QED
    BY <1>3, <1>4, <1>5

(* Frames and list are in order after PCB_init read one of the first two   *)
(* pages.                                                                  *)
LEMMA LoadFirst ==
  ASSUME NEW m, MemOK(m), NEW ps, NEW S, FramesPlain(m, ps, S), PcbsOK(ps),
         NEW list, ListOK(ps, list), ListPlain(ps, list), NEW p, NEW q, NEW i, NEW k,
         NEW m2, NEW new, NEW ps2, FirstAt(m, ps, p, q, i, k, m2, new, ps2)
  PROVE  /\ FramesPlain(m2, ps2, S) /\ ListPlain(ps2, <<<<p, i>>>> \o list)
         /\ ListOK(ps2, <<<<p, i>>>> \o list) /\ MemOK(m2) /\ PcbsOK(ps2)
         /\ Pushed(p, i, list)
  <1>0. /\ p \in DOMAIN ps /\ q = ps[p]
        /\ i \in {0, 1} /\ i \in DOMAIN q.pages /\ q.fpos = 3 * i
        /\ FirstFit(m, k) /\ m2 = LoadedMem(m, p, q, k)
        /\ new = LoadedPcb(q, i, k) /\ Becomes(ps, p, new, ps2)
    BY DEF FirstAt
  <1>1. q \in PcbType /\ p \in Pid /\ PcbPlain(q)
    BY <1>0 DEF PcbsOK, FramesPlain, PagesPlain
  <1>2. k \in 0 .. FrameStoreSize - 3
    BY <1>0 DEF FirstFit, Fits
  <1>3. new \in PcbType /\ DOMAIN new.pages = DOMAIN q.pages
    BY <1>1, LoadFirstPcb
  <1>4. FramesPlain(m2, ps2, S) /\ NowHere(ps, p, i, ps2)
    <2>1. LoadedAt(m, ps, p, i, k, m2, ps2)
      BY <1>0, Zenon DEF LoadedAt
    <2>2. QED
      BY <1>0, <1>1, <2>1, LoadFrames
  <1>5. ListPlain(ps2, <<<<p, i>>>> \o list) /\ Pushed(p, i, list)
    BY <1>0, <1>1, <1>4, LoadList
  <1>8. MemOK(m2)
    BY <1>0, <1>1, LoadedMemOK
  <1>9. /\ DOMAIN ps2 = DOMAIN ps /\ ps2[p] = new
        /\ \A r \in DOMAIN ps : r # p => ps2[r] = ps[r]
    BY <1>0 DEF Becomes
  <1>10. PcbsOK(ps2)
    BY <1>0, <1>3, <1>9 DEF PcbsOK
  <1>11. ListOK(ps2, <<<<p, i>>>> \o list)
    <2>1. list \in Seq(Pid \X Nat) /\ <<p, i>> \in Pid \X Nat
      BY <1>0, <1>1 DEF ListOK
    <2>2. PICK list2 : list2 = <<<<p, i>>>> \o list
      OBVIOUS
    <2>3. list2 \in Seq(Pid \X Nat) /\ \A d : In(d, list2) <=> d = <<p, i>> \/ In(d, list)
      BY <1>0, <2>1, <2>2, InPush
    <2>4. ASSUME NEW r \in Pid, NEW h \in Nat, In(<<r, h>>, list2)
          PROVE  r \in DOMAIN ps2 /\ h \in DOMAIN ps2[r].pages
      <3>1. CASE <<r, h>> = <<p, i>>
        BY <1>0, <1>3, <1>9, <3>1
      <3>2. CASE In(<<r, h>>, list)
        <4>1. r \in DOMAIN ps /\ h \in DOMAIN ps[r].pages
          BY <1>0, <2>4, <3>2 DEF ListOK
        <4>2. DOMAIN ps2[r].pages = DOMAIN ps[r].pages
          <5>1. CASE r = p
            BY <1>0, <1>3, <1>9, <5>1
          <5>2. CASE r # p
            BY <1>0, <1>9, <4>1, <5>2
          <5>3. QED
            BY <1>0, <5>1, <5>2
        <4>3. QED
          BY <1>0, <1>9, <4>1, <4>2
      <3>3. QED
        BY <1>0, <2>3, <2>4, <3>1, <3>2
    <2>5. QED
      BY <1>0, <2>2, <2>3, <2>4 DEF ListOK
  <1>12. QED
    BY <1>0, <1>3, <1>4, <1>5, <1>3, <1>8, <1>10, <1>11

(* The pages of process p at the head of a list, before those of old. *)
NewFirst(old, p, new) ==
  \A c, d : Ahead(new, c, d) => (\E k : c = <<p, k>>) \/ Ahead(old, c, d)

(* Another page of the new process at the head of the list. *)
LEMMA PushedFirst ==
  ASSUME NEW old, NEW p, NEW i, NEW list, NewFirst(old, p, list), Pushed(p, i, list)
  PROVE  NewFirst(old, p, <<<<p, i>>>> \o list)
  <1>1. PICK new : new = <<<<p, i>>>> \o list
    OBVIOUS
  <1>2. \A c, d : Ahead(new, c, d) => c = <<p, i>> \/ Ahead(list, c, d)
    BY <1>1, Zenon DEF Pushed
  <1>3. NewFirst(old, p, new)
    BY <1>2, Zenon DEF NewFirst
  <1>4. QED
    BY <1>1, <1>3

(* A process that joins and is then replaced. *)
LEMMA JoinsBecomes ==
  ASSUME NEW ps, NEW p, NEW a, NEW psa, Joins(ps, p, a, psa), NEW b, NEW psb, Joins(ps, p, b, psb)
  PROVE  Becomes(psa, p, b, psb)
  <1>1. DOMAIN psa = DOMAIN ps \cup {p} /\ DOMAIN psb = DOMAIN ps \cup {p} /\ psb[p] = b
    BY DEF Joins
  <1>2. \A r \in DOMAIN psa \ {p} : psb[r] = psa[r]
    BY DEF Joins
  <1>3. QED
    BY <1>1, <1>2 DEF Becomes

(* What Admit changes, for the new process p with its state q. *)
Admits(p, q, m) ==
  /\ mem' = m /\ Joins(pcbs, p, q, pcbs')
  /\ lru' = LoadedFirst(p, Cardinality(DOMAIN q.pages)) \o lru
  /\ queue' = Append(queue, p) /\ cpu' = cpu
  /\ DOMAIN executed' = DOMAIN executed \cup {p} /\ executed'[p] = <<>>
  /\ \A r \in DOMAIN executed : r # p => executed'[r] = executed[r]

(* What Admit changes. *)
LEMMA AdmitIs ==
  ASSUME NEW p, p = nextPid, p \notin DOMAIN pcbs, NEW q, NEW m, Admit(q, m)
  PROVE  Admits(p, q, m)
  <1>1. pcbs' = [r \in DOMAIN pcbs \cup {p} |-> IF r = p THEN q ELSE pcbs[r]]
    BY DEF Admit
  <1>2. Joins(pcbs, p, q, pcbs')
    BY <1>1 DEF Joins
  <1>3. executed' = [r \in DOMAIN executed \cup {p} |-> IF r = p THEN <<>> ELSE executed[r]]
    BY DEF Admit
  <1>4. /\ DOMAIN executed' = DOMAIN executed \cup {p} /\ executed'[p] = <<>>
        /\ \A r \in DOMAIN executed : r # p => executed'[r] = executed[r]
    BY <1>3
  <1>5. QED
    BY <1>2, <1>4 DEF Admit, Admits

(* The one page or the two pages that PCB_init loaded. *)
LEMMA NewPages ==
  ASSUME KInv, NEW S, FramesPlain(mem, pcbs, S), ListPlain(pcbs, lru), NewProc, ~Restarted,
         NEW p \in Pid, p = nextPid, p \notin DOMAIN pcbs, \A x \in Frames : mem[x].var # p,
         NEW s \in Script, s = Head(loading), Plain(s)
  PROVE  \E q, m : /\ Admits(p, q, m)
                   /\ FramesPlain(m, pcbs', S) /\ ListPlain(pcbs', lru') /\ NewFirst(lru, p, lru')
                   /\ Ran(q) = 0 /\ (q.fpos = Size(q) \/ q.fpos >= 6)
  <1>1. PICK q : q = FreshPcb(s)
    OBVIOUS
  <1>2. /\ q \in PcbType /\ PcbPlain(q) /\ q.fpos = 0
        /\ Ran(q) = 0 /\ Size(q) \in Nat \ {0}
        /\ DOMAIN q.pages = {i \in 0 .. Size(q) : 3 * i < Size(q)}
        /\ \A i \in DOMAIN q.pages : PageAway(q, i) /\ ~Here(q, i)
    BY <1>1, FreshPlain
  <1>3. PICK n \in Nat \ {0} : DOMAIN q.pages = 0 .. n - 1
    BY <1>1, FreshPcbType
  <1>4. MemOK(mem) /\ PcbsOK(pcbs) /\ ListOK(pcbs, lru) /\ lru \in Seq(Pid \X Nat)
    BY DEF KInv, ListOK
  <1>. DEFINE J(a) == [r \in DOMAIN pcbs \cup {p} |-> IF r = p THEN a ELSE pcbs[r]]
  <1>5. \A a : Joins(pcbs, p, a, J(a))
    BY DEF Joins
  <1>. HIDE DEF J
  <1>6. PICK ps0 : Joins(pcbs, p, q, ps0)
    BY <1>5
  <1>7. p \in DOMAIN ps0 /\ ps0[p] = q
    BY <1>6 DEF Joins
  <1>8. PcbsOK(ps0)
    BY <1>2, <1>4, <1>6 DEF PcbsOK, Joins
  <1>9. \A i \in DOMAIN q.pages : i \in Nat /\ PageAway(q, i) /\ ~Here(q, i)
    BY <1>2, <1>3
  <1>10. FramesPlain(mem, ps0, S) /\ ListPlain(ps0, lru) /\ ListOK(ps0, lru)
    BY <1>2, <1>4, <1>6, <1>9, JoinFrames
  <1>11. 0 \in DOMAIN q.pages /\ (DOMAIN q.pages # {0} => n # 1 /\ 1 \in DOMAIN q.pages)
    BY <1>3
  <1>12. Cardinality(DOMAIN q.pages) = n
    BY <1>3, FS_Interval
  <1>13. NewFirst(lru, p, lru)
    BY DEF NewFirst
  <1>14. ASSUME NEW k, FirstFit(mem, k), NEW one, one = LoadedPcb(q, 0, k),
                NEW m, m = LoadedMem(mem, p, q, k), NEW ps1, Joins(pcbs, p, one, ps1)
         PROVE  /\ FramesPlain(m, ps1, S) /\ ListPlain(ps1, <<<<p, 0>>>> \o lru)
                /\ ListOK(ps1, <<<<p, 0>>>> \o lru) /\ MemOK(m) /\ PcbsOK(ps1)
                /\ NewFirst(lru, p, <<<<p, 0>>>> \o lru)
                /\ Ran(one) = 0 /\ Size(one) = Size(q)
                /\ one.fpos = Size(q) \/ one.fpos = 3
                /\ DOMAIN one.pages = DOMAIN q.pages /\ PcbPlain(one) /\ one \in PcbType
    <2>1. Becomes(ps0, p, one, ps1)
      BY <1>6, <1>14, JoinsBecomes
    <2>2. PICK i \in {0, 1} : i = 0
      OBVIOUS
    <2>3. q.fpos = 3 * i /\ i \in DOMAIN q.pages /\ one = LoadedPcb(q, i, k)
      BY <1>2, <1>11, <1>14, <2>2
    <2>0. FirstAt(mem, ps0, p, q, i, k, m, one, ps1)
      BY <1>7, <1>14, <2>1, <2>3, Zenon DEF FirstAt
    <2>4. /\ FramesPlain(m, ps1, S) /\ ListPlain(ps1, <<<<p, i>>>> \o lru)
          /\ ListOK(ps1, <<<<p, i>>>> \o lru) /\ MemOK(m) /\ PcbsOK(ps1)
          /\ Pushed(p, i, lru)
      BY <1>4, <1>8, <1>10, <2>0, LoadFirst
    <2>7. /\ one \in PcbType /\ PcbPlain(one) /\ Size(one) = Size(q) /\ Ran(one) = Ran(q)
          /\ one.fpos = Size(q) \/ one.fpos = 3 * i + 3
          /\ DOMAIN one.pages = DOMAIN q.pages
      BY <1>2, <2>0, LoadFirstPcb
    <2>5. NewFirst(lru, p, <<<<p, i>>>> \o lru)
      BY <1>13, <2>4, PushedFirst
    <2>6. QED
      BY <1>2, <2>2, <2>4, <2>5, <2>7
  <1>15. ASSUME NEW k \in Frames, FirstFit(mem, k), DOMAIN q.pages = {0},
                NEW one, one = LoadedPcb(q, 0, k),
                NEW m, m = LoadedMem(mem, p, q, k), Admit(one, m)
         PROVE  /\ Admits(p, one, m)
                /\ FramesPlain(m, pcbs', S) /\ ListPlain(pcbs', lru') /\ NewFirst(lru, p, lru')
                /\ Ran(one) = 0 /\ (one.fpos = Size(one) \/ one.fpos >= 6)
    <2>1. Admits(p, one, m)
      BY <1>15, AdmitIs
    <2>2. Joins(pcbs, p, one, pcbs')
      BY <2>1 DEF Admits
    <2>3. /\ FramesPlain(m, pcbs', S) /\ ListPlain(pcbs', <<<<p, 0>>>> \o lru)
          /\ NewFirst(lru, p, <<<<p, 0>>>> \o lru)
          /\ Ran(one) = 0 /\ Size(one) = Size(q)
          /\ one.fpos = Size(q) \/ one.fpos = 3
          /\ DOMAIN one.pages = DOMAIN q.pages /\ PcbPlain(one) /\ one \in PcbType
      BY <1>14, <1>15, <2>2
    <2>4. lru' = <<<<p, 0>>>> \o lru
      <3>1. Cardinality({0}) = 1
        BY FS_Singleton
      <3>2. QED
        BY <1>15, <2>1, <2>3, <3>1 DEF Admits, LoadedFirst
    <2>5. one.fpos = Size(one)
      <3>1. Size(q) <= 3
        <4>1. 1 \notin DOMAIN q.pages
          BY <1>15
        <4>2. QED
          BY <1>2, <4>1
      <3>2. one.fpos <= Size(one)
        BY <2>3 DEF PcbPlain
      <3>3. QED
        BY <1>2, <2>3, <3>1, <3>2
    <2>6. QED
      BY <2>1, <2>3, <2>4, <2>5
  <1>16. ASSUME NEW k \in Frames, FirstFit(mem, k), DOMAIN q.pages # {0},
                NEW one, one = LoadedPcb(q, 0, k),
                NEW m1, m1 = LoadedMem(mem, p, q, k),
                NEW h \in Frames, FirstFit(m1, h), NEW two, two = LoadedPcb(one, 1, h),
                NEW m, m = LoadedMem(m1, p, one, h), Admit(two, m)
         PROVE  /\ Admits(p, two, m)
                /\ FramesPlain(m, pcbs', S) /\ ListPlain(pcbs', lru') /\ NewFirst(lru, p, lru')
                /\ Ran(two) = 0 /\ (two.fpos = Size(two) \/ two.fpos >= 6)
    <2>1. Admits(p, two, m)
      BY <1>16, AdmitIs
    <2>2. Joins(pcbs, p, two, pcbs')
      BY <2>1 DEF Admits
    <2>3. PICK ps1 : Joins(pcbs, p, one, ps1)
      BY <1>5
    <2>4. PICK list1 : list1 = <<<<p, 0>>>> \o lru
      OBVIOUS
    <2>5. /\ FramesPlain(m1, ps1, S) /\ ListPlain(ps1, list1)
          /\ ListOK(ps1, list1) /\ MemOK(m1) /\ PcbsOK(ps1)
          /\ NewFirst(lru, p, list1)
          /\ Ran(one) = 0 /\ Size(one) = Size(q)
          /\ one.fpos = Size(q) \/ one.fpos = 3
          /\ DOMAIN one.pages = DOMAIN q.pages /\ PcbPlain(one) /\ one \in PcbType
      BY <1>14, <1>16, <2>3, <2>4
    <2>6. one.fpos = 3
      <3>1. 3 * 1 < Size(q)
        BY <1>2, <1>11, <1>16
      <3>2. one.fpos = IF Reads(q, 2) THEN q.fpos + 3 ELSE Size(q)
        BY <1>2, <1>11, <1>16, LoadedIs
      <3>3. Reads(q, 2)
        BY <1>2, <3>1 DEF Reads, Size
      <3>4. QED
        BY <1>2, <3>2, <3>3
    <2>7. Becomes(ps1, p, two, pcbs')
      BY <2>2, <2>3, JoinsBecomes
    <2>8. PICK i \in {0, 1} : i = 1
      OBVIOUS
    <2>9. /\ p \in DOMAIN ps1 /\ ps1[p] = one /\ one.fpos = 3 * i
          /\ i \in DOMAIN one.pages /\ two = LoadedPcb(one, i, h)
      BY <1>11, <1>16, <2>3, <2>5, <2>6, <2>8 DEF Joins
    <2>10. PICK ps2, list2 : ps2 = pcbs' /\ list2 = <<<<p, i>>>> \o list1
      OBVIOUS
    <2>11. /\ FramesPlain(m, ps2, S) /\ ListPlain(ps2, list2)
           /\ Pushed(p, i, list1)
           /\ Size(two) = Size(one) /\ Ran(two) = Ran(one)
           /\ two.fpos = Size(one) \/ two.fpos = 3 * i + 3
           /\ DOMAIN two.pages = DOMAIN one.pages
      <3>1. FirstAt(m1, ps1, p, one, i, h, m, two, ps2)
        BY <1>16, <2>7, <2>9, <2>10, Zenon DEF FirstAt
      <3>2. QED
        BY <2>5, <2>10, <3>1, LoadFirst, LoadFirstPcb
    <2>12. lru' = list2
      <3>1. lru' = <<<<p, 1>>, <<p, 0>>>> \o lru
        BY <1>11, <1>12, <1>16, <2>1, <2>5, <2>11 DEF Admits, LoadedFirst
      <3>2. PICK T, list, d, e : T = Pid \X Nat /\ list = lru /\ d = <<p, 1>> /\ e = <<p, 0>>
        OBVIOUS
      <3>3. list \in Seq(T) /\ d \in T /\ e \in T
        BY <1>4, <3>2
      <3>4. <<d, e>> \o list = <<d>> \o (<<e>> \o list)
        BY <3>3, PushTwo
      <3>5. QED
        BY <2>4, <2>8, <2>10, <3>1, <3>2, <3>4
    <2>13. NewFirst(lru, p, list2)
      BY <2>5, <2>10, <2>11, PushedFirst
    <2>14. Size(two) = Size(q) /\ (two.fpos = Size(two) \/ two.fpos = 6) /\ Ran(two) = 0
      BY <2>5, <2>8, <2>11
    <2>15. QED
      BY <2>1, <2>10, <2>11, <2>12, <2>13, <2>14
  <1>17. NewProc => \E k \in Frames :
           /\ FirstFit(mem, k)
           /\ \/ DOMAIN q.pages = {0} /\ Admit(LoadedPcb(q, 0, k), LoadedMem(mem, p, q, k))
              \/ /\ DOMAIN q.pages # {0}
                 /\ \E h \in Frames :
                      /\ FirstFit(LoadedMem(mem, p, q, k), h)
                      /\ Admit(LoadedPcb(LoadedPcb(q, 0, k), 1, h),
                               LoadedMem(LoadedMem(mem, p, q, k), p, LoadedPcb(q, 0, k), h))
    BY <1>1, Zenon DEF NewProc
  <1>18. PICK k \in Frames :
           /\ FirstFit(mem, k)
           /\ \/ DOMAIN q.pages = {0} /\ Admit(LoadedPcb(q, 0, k), LoadedMem(mem, p, q, k))
              \/ /\ DOMAIN q.pages # {0}
                 /\ \E h \in Frames :
                      /\ FirstFit(LoadedMem(mem, p, q, k), h)
                      /\ Admit(LoadedPcb(LoadedPcb(q, 0, k), 1, h),
                               LoadedMem(LoadedMem(mem, p, q, k), p, LoadedPcb(q, 0, k), h))
    BY <1>17
  <1>19. QED
    BY <1>15, <1>16, <1>18, Zenon

(* Before the first line runs every process has its first two pages. *)
LEMMA StartedPlain ==
  ASSUME NEW m, NEW ps, PcbsOK(ps), NEW S, FramesPlain(m, ps, S), TwoRead(ps),
         NEW list, ListPlain(ps, list), \A r \in DOMAIN ps : Ran(ps[r]) = 0
  PROVE  CorePlain(m, ps, list, S)
  <1>1. PagesPlain(m, ps, S)
    BY Zenon DEF FramesPlain
  <1>2. ASSUME NEW r \in DOMAIN ps
        PROVE  /\ PcbPlain(ps[r]) /\ ps[r] \in PcbType /\ Size(ps[r]) \in Nat \ {0}
               /\ ps[r].size \in Nat \ {0} /\ ps[r].fpos \in Nat /\ Ran(ps[r]) = 0
               /\ \A k \in DOMAIN ps[r].pages : k \in Nat /\ 3 * k < Size(ps[r])
    <2>1. PICK q : q = ps[r]
      OBVIOUS
    <2>2. PcbPlain(q) /\ q \in PcbType /\ Ran(q) = 0
      BY <1>1, <1>2, <2>1 DEF PagesPlain, PcbsOK
    <2>3. /\ Size(q) \in Nat \ {0} /\ q.size \in Nat /\ q.fpos \in Nat
          /\ Ran(q) = Size(q) - q.size
          /\ \A k \in DOMAIN q.pages : k \in Nat /\ 3 * k < Size(q)
      BY <2>2, PcbFacts
    <2>4. q.size \in Nat \ {0}
      BY <2>2, <2>3
    <2>5. QED
      BY <2>1, <2>2, <2>3, <2>4
  <1>3. ASSUME NEW r \in DOMAIN ps, NEW k \in DOMAIN ps[r].pages, k \in {0, 1}
        PROVE  Here(ps[r], k) /\ ps[r].pages[k].index[0] \in S
    <2>1. PICK q : q = ps[r]
      OBVIOUS
    <2>2. /\ Size(q) \in Nat \ {0} /\ q.size \in Nat \ {0} /\ q.fpos \in Nat
          /\ Ran(q) = 0 /\ 3 * k < Size(q)
      BY <1>2, <1>3, <2>1
    <2>3. q.fpos = Size(q) \/ q.fpos >= 6
      BY <1>3, <2>1, Zenon DEF TwoRead
    <2>4. 3 * k < q.fpos
      BY <1>3, <2>2, <2>3
    <2>5. ~(3 * k + 3 <= Ran(q)) /\ q.size # 0
      BY <1>3, <2>2
    <2>6. ~PageAway(q, k)
      BY <2>4, <2>5, Zenon DEF PageAway
    <2>7. PageHere(m, r, q, k, S)
      BY <1>1, <1>3, <2>1, <2>6, Zenon DEF PagesPlain
    <2>8. 0 \in Offset /\ 3 * k + 0 < Size(q)
      BY <1>3, <2>2 DEF Offset
    <2>9. QED
      BY <2>1, <2>7, <2>8, Zenon DEF PageHere, Here
  <1>4. ASSUME NEW r \in DOMAIN ps, NEW k \in DOMAIN ps[r].pages, In(<<r, k>>, list)
        PROVE  k \in {0, 1}
    <2>1. PICK q : q = ps[r]
      OBVIOUS
    <2>2. Here(q, k)
      BY <1>4, <2>1, Zenon DEF ListPlain
    <2>3. PageHere(m, r, q, k, S)
      BY <1>1, <1>4, <2>1, <2>2, IsHere
    <2>4. k <= 1 \/ 3 * k <= Ran(q)
      BY <1>2, <1>4, <2>1, <2>3 DEF PageHere, PcbPlain
    <2>5. QED
      BY <1>2, <1>4, <2>1, <2>4
  <1>5. BasePlain(ps, S)
    <2>. DEFINE f == [e \in Base(ps) |-> ps[e[1]].pages[e[2]].index[0]]
    <2>1. ASSUME NEW e \in Base(ps)
          PROVE  /\ e = <<e[1], e[2]>> /\ e[1] \in DOMAIN ps /\ e[2] \in DOMAIN ps[e[1]].pages
                 /\ Here(ps[e[1]], e[2]) /\ ps[e[1]].pages[e[2]].index[0] \in S
      <3>1. e = <<e[1], e[2]>> /\ e[1] \in DOMAIN ps /\ e[2] \in {0, 1} /\ e[2] \in DOMAIN ps[e[1]].pages
        BY <2>1 DEF Base
      <3>2. QED
        BY <1>3, <3>1
    <2>2. f \in [Base(ps) -> S]
      BY <2>1
    <2>3. ASSUME NEW d \in Base(ps), NEW e \in Base(ps), f[d] = f[e] PROVE d = e
      <3>1. ps[d[1]].pages[d[2]].index[0] = ps[e[1]].pages[e[2]].index[0]
        BY <2>3
      <3>2. d[1] = e[1] /\ d[2] = e[2]
        <4>1. PICK p : p = d[1]
          OBVIOUS
        <4>2. PICK i : i = d[2]
          OBVIOUS
        <4>3. PICK r : r = e[1]
          OBVIOUS
        <4>4. PICK h : h = e[2]
          OBVIOUS
        <4>5. p \in DOMAIN ps /\ i \in DOMAIN ps[p].pages /\ Here(ps[p], i)
          BY <2>1, <2>3, <4>1, <4>2, Zenon
        <4>6. r \in DOMAIN ps /\ h \in DOMAIN ps[r].pages /\ Here(ps[r], h)
          BY <2>1, <2>3, <4>3, <4>4, Zenon
        <4>7. ps[p].pages[i].index[0] = ps[r].pages[h].index[0]
          BY <3>1, <4>1, <4>2, <4>3, <4>4, Zenon
        <4>8. p = r /\ i = h
          BY <1>1, <4>5, <4>6, <4>7, OneFrameEach
        <4>9. QED
          BY <4>1, <4>2, <4>3, <4>4, <4>8, Zenon
      <3>3. QED
        BY <2>1, <2>3, <3>2, Zenon
    <2>. HIDE DEF f
    <2>4. QED
      BY <2>2, <2>3 DEF BasePlain
  <1>6. OrderPlain(ps, list)
    <2>1. ASSUME NEW o \in DOMAIN ps, NEW i \in DOMAIN ps[o].pages,
                 NEW r \in DOMAIN ps, NEW k \in DOMAIN ps[r].pages,
                 Ahead(list, <<r, k>>, <<o, i>>)
          PROVE  Recent(ps[r], k)
      <3>1. k \in {0, 1}
        BY <1>4, <2>1, AheadIn
      <3>2. Ran(ps[r]) = 0
        BY <1>2, <2>1
      <3>3. QED
        BY <3>1, <3>2 DEF Recent
    <2>2. QED
      BY <2>1, Zenon DEF OrderPlain
  <1>7. QED
    BY <1>5, <1>6, Zenon DEF CorePlain, FramesPlain

(* A new process, with its first page or its first two, keeps the          *)
(* invariant.                                                              *)
LEMMA NewProcPlain ==
  ASSUME KInv, PlainInv, KInv', NewProc, ~Restarted,
         NEW p, p = nextPid, p \in Pid, p \notin DOMAIN pcbs, \A x \in Frames : mem[x].var # p,
         NEW s \in Script, s = Head(loading), Plain(s)
  PROVE  PlainInv'
  <1>. DEFINE S == Starts(Lost(mem, pcbs))
  <1>1. CorePlain(mem, pcbs, lru, S) /\ WaitPlain(pcbs, lru, queue) /\ RanPlain(pcbs, executed)
    BY DEF PlainInv
  <1>2. phase = "loading" /\ cpu = Idle /\ \A r \in DOMAIN pcbs : Ran(pcbs[r]) = 0
    BY DEF NewProc, KInv, TurnOK, PlainInv
  <1>. HIDE DEF S
  <1>3. None \notin DOMAIN pcbs
    BY NoneIsNoPid DEF KInv
  <1>4. FramesPlain(mem, pcbs, S) /\ ListPlain(pcbs, lru) /\ TwoRead(pcbs)
    BY <1>1, <1>3, Zenon DEF CorePlain, FramesPlain
  <1>5. PICK q, m : /\ Admits(p, q, m)
                    /\ FramesPlain(m, pcbs', S) /\ ListPlain(pcbs', lru') /\ NewFirst(lru, p, lru')
                    /\ Ran(q) = 0 /\ (q.fpos = Size(q) \/ q.fpos >= 6)
    BY <1>4, NewPages
  <1>6. PICK ps2, list2, queue2, ex2 :
          ps2 = pcbs' /\ list2 = lru' /\ queue2 = queue' /\ ex2 = executed'
    OBVIOUS
  <1>7. /\ mem' = m /\ Joins(pcbs, p, q, ps2) /\ queue2 = Append(queue, p) /\ cpu' = cpu
        /\ DOMAIN ex2 = DOMAIN executed \cup {p} /\ ex2[p] = <<>>
        /\ \A r \in DOMAIN executed : r # p => ex2[r] = executed[r]
        /\ FramesPlain(m, ps2, S) /\ ListPlain(ps2, list2) /\ NewFirst(lru, p, list2)
    BY <1>5, <1>6, Zenon DEF Admits
  <1>8. /\ DOMAIN ps2 = DOMAIN pcbs \cup {p} /\ ps2[p] = q
        /\ \A r \in DOMAIN pcbs : ps2[r] = pcbs[r]
    BY <1>7 DEF Joins
  <1>9. PcbsOK(ps2)
    BY <1>6 DEF KInv
  <1>10. \A r \in DOMAIN ps2 : Ran(ps2[r]) = 0
    BY <1>2, <1>5, <1>8
  <1>11. TwoRead(ps2)
    <2>1. ASSUME NEW r \in DOMAIN ps2 PROVE ps2[r].fpos = Size(ps2[r]) \/ ps2[r].fpos >= 6
      <3>1. CASE r = p
        BY <1>5, <1>8, <3>1
      <3>2. CASE r # p
        <4>1. r \in DOMAIN pcbs /\ ps2[r] = pcbs[r]
          BY <1>8, <2>1, <3>2
        <4>2. QED
          BY <1>4, <4>1, Zenon DEF TwoRead
      <3>3. QED
        BY <3>1, <3>2
    <2>2. QED
      BY <2>1, Zenon DEF TwoRead
  <1>12. CorePlain(m, ps2, list2, S)
    BY <1>7, <1>9, <1>10, <1>11, StartedPlain
  <1>13. WaitPlain(ps2, list2, queue2)
    <2>1. /\ queue \in Seq(DOMAIN pcbs) /\ lru \in Seq(Pid \X Nat)
          /\ \A r \in Pid, i \in Nat : In(<<r, i>>, lru) => r \in DOMAIN pcbs
      BY DEF KInv, ListOK
    <2>2. \A o : In(o, queue) => o \in DOMAIN pcbs
      BY <2>1 DEF In
    <2>3. ASSUME NEW r \in DOMAIN ps2, NEW o \in DOMAIN ps2, ps2[o].size > 0, Ahead(queue2, r, o),
                 NEW i \in DOMAIN ps2[o].pages, NEW k \in DOMAIN ps2[r].pages,
                 At(ps2[o], i), Ahead(list2, <<r, k>>, <<o, i>>)
          PROVE  FALSE
      <3>1. (In(r, queue) /\ o = p) \/ Ahead(queue, r, o)
        BY <1>7, <2>1, <2>3, AheadAppend
      <3>2. r \in DOMAIN pcbs /\ r # p
        BY <2>2, <3>1, AheadIn
      <3>3. Ahead(lru, <<r, k>>, <<o, i>>)
        <4>1. (\E h : <<r, k>> = <<p, h>>) \/ Ahead(lru, <<r, k>>, <<o, i>>)
          BY <1>7, <2>3, Zenon DEF NewFirst
        <4>2. QED
          BY <3>2, <4>1
      <3>4. o \in DOMAIN pcbs
        <4>1. In(<<o, i>>, lru)
          BY <3>3, AheadIn
        <4>2. i \in Nat /\ o \in Pid
          <5>1. PagesPlain(m, ps2, S)
            BY <1>7 DEF FramesPlain
          <5>2. i \in Nat
            BY <1>9, <2>3, <5>1, RanIs
          <5>3. QED
            BY <1>9, <2>3, <5>2 DEF PcbsOK
        <4>3. QED
          BY <2>1, <4>1, <4>2
      <3>5. Ahead(queue, r, o) /\ ps2[o] = pcbs[o] /\ ps2[r] = pcbs[r]
        BY <1>7, <1>8, <3>1, <3>2, <3>4
      <3>6. QED
        BY <1>1, <2>3, <3>2, <3>3, <3>4, <3>5, Zenon DEF WaitPlain
    <2>4. QED
      BY <2>3, Zenon DEF WaitPlain
  <1>14. cpu' = Idle /\ Idle.pid = 0 /\ 0 \notin DOMAIN ps2
    BY <1>2, <1>7, <1>9, NoneIsNoPid DEF Idle
  <1>15. TurnPlain(ps2, list2, cpu')
    BY <1>14 DEF TurnPlain
  <1>16. SyncPlain(ps2, queue2, cpu')
    <2>1. ASSUME NEW o \in DOMAIN ps2, NEW r \in DOMAIN ps2 \ {o}
          PROVE  /\ Ran(ps2[r]) <= Ran(ps2[o]) + 2 /\ Ran(ps2[r]) <= Ran(ps2[o])
                 /\ cpu'.pid # r /\ cpu'.pid # o
      BY <1>10, <1>14, <2>1
    <2>2. QED
      BY <2>1, Zenon DEF SyncPlain
  <1>17. EvenPlain(ps2, cpu')
    <2>1. \A r \in DOMAIN ps2 : Ran(ps2[r]) % 2 = 0 /\ cpu'.pid # r
      BY <1>10, <1>14
    <2>2. QED
      BY <2>1, Zenon DEF EvenPlain
  <1>18. RanPlain(ps2, ex2)
    <2>1. DOMAIN executed = DOMAIN pcbs
      BY DEF KInv
    <2>2. ASSUME NEW r \in DOMAIN ps2 PROVE ex2[r] = [n \in 1 .. Ran(ps2[r]) |-> <<r, n>>]
      <3>1. CASE r = p
        <4>1. <<>> = [n \in 1 .. 0 |-> <<r, n>>]
          OBVIOUS
        <4>2. Ran(ps2[r]) = 0 /\ ex2[r] = <<>>
          BY <1>7, <1>10, <2>2, <3>1
        <4>3. QED
          BY <4>1, <4>2, Zenon
      <3>2. CASE r # p
        <4>1. r \in DOMAIN pcbs /\ ps2[r] = pcbs[r] /\ ex2[r] = executed[r]
          BY <1>7, <1>8, <2>1, <2>2, <3>2
        <4>2. executed[r] = [n \in 1 .. Ran(pcbs[r]) |-> <<r, n>>]
          BY <1>1, <4>1, Zenon DEF RanPlain
        <4>3. QED
          BY <4>1, <4>2, Zenon
      <3>3. QED
        BY <3>1, <3>2
    <2>3. QED
      BY <2>2, Zenon DEF RanPlain
  <1>19. S = Starts(Lost(m, ps2))
    BY <1>7, Zenon DEF FramesPlain
  <1>20. QED
    BY <1>6, <1>7, <1>10, <1>12, <1>13, <1>15, <1>16, <1>17, <1>18, <1>19 DEF PlainInv

-----------------------------------------------------------------------------
(* No process: before the first exec, and whenever the prompt is back.     *)
LEMMA EmptyPlain ==
  ASSUME NEW m, NEW ps, ps = <<>>, NEW list, list = <<>>
  PROVE  /\ CorePlain(m, ps, list, Starts(Lost(m, ps)))
         /\ \A q : WaitPlain(ps, list, q) /\ SyncPlain(ps, q, Idle)
         /\ TurnPlain(ps, list, Idle) /\ EvenPlain(ps, Idle) /\ \A ex : RanPlain(ps, ex)
  <1>1. DOMAIN ps = {}
    OBVIOUS
  <1>2. Distinct(list)
    BY DEF Distinct
  <1>. PICK S : S = Starts(Lost(m, ps))
    OBVIOUS
  <1>3. PagesPlain(m, ps, S) /\ OwnedPlain(m, ps) /\ TwoRead(ps)
    BY <1>1, Zenon DEF PagesPlain, OwnedPlain, TwoRead
  <1>4. ListPlain(ps, list) /\ OrderPlain(ps, list)
    BY <1>1, <1>2, Zenon DEF ListPlain, OrderPlain
  <1>5. BasePlain(ps, S)
    <2>1. Base(ps) = {}
      BY <1>1 DEF Base
    <2>2. PICK f : f = [e \in {} |-> e]
      OBVIOUS
    <2>3. f \in [{} -> S]
      BY <2>2
    <2>4. QED
      BY <2>1, <2>3 DEF BasePlain
  <1>6. CorePlain(m, ps, list, Starts(Lost(m, ps)))
    BY <1>3, <1>4, <1>5, Zenon DEF CorePlain
  <1>7. \A q : WaitPlain(ps, list, q) /\ SyncPlain(ps, q, Idle)
    BY <1>1, Zenon DEF WaitPlain, SyncPlain
  <1>8. TurnPlain(ps, list, Idle) /\ EvenPlain(ps, Idle) /\ \A ex : RanPlain(ps, ex)
    BY <1>1, Zenon DEF TurnPlain, EvenPlain, RanPlain
  <1>9. QED
    BY <1>6, <1>7, <1>8

-----------------------------------------------------------------------------
(* The owners of the frame store, and the scripts of the processes.        *)

LEMMA FramesInStore == Frames \subseteq Position /\ Frames \cap VarZone = {}
  BY KernelAssumption DEF Frames, VarZone, Position

(* A loaded frame has an owner. *)
LEMMA LoadedOwned ==
  ASSUME NEW m, NEW next, Owned(m, next), NEW p \in Pid, p < next, NEW q, NEW k
  PROVE  Owned(LoadedMem(m, p, q, k), next)
  <1>. DEFINE line(x) == IF Reads(q, x - k) THEN <<p, q.fpos + x - k + 1>> ELSE m[x].value
              new == LoadedMem(m, p, q, k)
  <1>1. \A x \in Position : new[x] = [var |-> p, value |-> line(x)] \/ new[x] = m[x]
    BY Zenon DEF LoadedMem
  <1>. HIDE DEF line, new
  <1>2. ASSUME NEW x \in Position
        PROVE  new[x] = [var |-> new[x].var, value |-> new[x].value] /\ (new[x].var = p \/ new[x] = m[x])
    <2>1. PICK v : v = line(x)
      OBVIOUS
    <2>2. CASE new[x] = [var |-> p, value |-> v]
      BY <2>2
    <2>3. CASE new[x] = m[x]
      <3>1. m[x] = [var |-> m[x].var, value |-> m[x].value]
        BY <1>2, Zenon DEF Owned
      <3>2. QED
        BY <2>3, <3>1, Zenon
    <2>4. QED
      BY <1>1, <1>2, <2>1, <2>2, <2>3, Zenon
  <1>3. \A x \in Position : new[x].var = p \/ new[x] = m[x]
    BY <1>2
  <1>4. \A x \in Frames : new[x].var = None \/ (new[x].var \in Pid /\ new[x].var < next)
    BY <1>3, FramesInStore DEF Owned
  <1>5. QED
    BY <1>2, <1>4, Zenon DEF Owned, new

(* The lines of an evicted frame are free. *)
LEMMA EvictedOwned ==
  ASSUME NEW m, NEW next, Owned(m, next), NEW page
  PROVE  Owned(EvictedMem(m, page), next)
  <1>. DEFINE new == EvictedMem(m, page)
  <1>1. \A x \in Position : new[x] = FreeLine \/ new[x] = m[x]
    BY DEF EvictedMem
  <1>. HIDE DEF new
  <1>2. ASSUME NEW x \in Position
        PROVE  new[x] = [var |-> new[x].var, value |-> new[x].value]
    <2>1. CASE new[x] = FreeLine
      BY <2>1 DEF FreeLine
    <2>2. CASE new[x] = m[x]
      <3>1. m[x] = [var |-> m[x].var, value |-> m[x].value]
        BY <1>2, Zenon DEF Owned
      <3>2. QED
        BY <2>2, <3>1, Zenon
    <2>3. QED
      BY <1>1, <1>2, <2>1, <2>2
  <1>3. \A x \in Frames : new[x].var = None \/ (new[x].var \in Pid /\ new[x].var < next)
    BY <1>1, FramesInStore DEF Owned, FreeLine
  <1>4. QED
    BY <1>2, <1>3, Zenon DEF Owned, new

(* Owners stay owners when one more process exists. *)
LEMMA OwnedMore ==
  ASSUME NEW m, NEW next \in Int, Owned(m, next)
  PROVE  Owned(m, next + 1)
  <1>1. \A p \in Pid : p < next => p < next + 1
    BY DEF Pid
  <1>2. QED
    BY <1>1, Zenon DEF Owned

SameScripts(ps, ps2) ==
  DOMAIN ps2 = DOMAIN ps /\ \A r \in DOMAIN ps : ps2[r].script = ps[r].script

(* A load changes no script. *)
LEMMA LoadsScripts ==
  ASSUME NEW p, NEW i, NEW ps, NEW m, NEW list, PcbsOK(ps),
         p \in DOMAIN ps, i \in DOMAIN ps[p].pages, Loads(p, i, ps, m, list),
         NEW next, Owned(m, next), p < next
  PROVE  SameScripts(ps, pcbs') /\ Owned(mem', next)
  <1>1. PICK q : q = ps[p]
    OBVIOUS
  <1>2. q \in PcbType /\ p \in Pid /\ i \in DOMAIN q.pages
    BY <1>1 DEF PcbsOK
  <1>3. CASE NoFrame(m) /\ mem' = m /\ pcbs' = ps
    BY <1>3 DEF SameScripts
  <1>4. ASSUME NEW k, mem' = LoadedMem(m, p, q, k), pcbs' = [ps EXCEPT ![p] = LoadedPcb(q, i, k)]
        PROVE  SameScripts(ps, pcbs') /\ Owned(mem', next)
    <2>1. Owned(mem', next)
      BY <1>2, <1>4, LoadedOwned
    <2>2. PICK new : new = LoadedPcb(q, i, k)
      OBVIOUS
    <2>3. new.script = q.script
      BY <1>2, <2>2, LoadedIs
    <2>4. pcbs' = [ps EXCEPT ![p] = new]
      BY <1>4, <2>2
    <2>5. SameScripts(ps, pcbs')
      BY <1>1, <2>3, <2>4 DEF SameScripts
    <2>6. QED
      BY <2>1, <2>5
  <1>5. \/ NoFrame(m) /\ mem' = m /\ pcbs' = ps
        \/ \E k : mem' = LoadedMem(m, p, q, k) /\ pcbs' = [ps EXCEPT ![p] = LoadedPcb(q, i, k)]
    BY <1>1, Zenon DEF Loads
  <1>6. QED
    BY <1>3, <1>4, <1>5

(* A page fault changes no script. *)
LEMMA FaultScripts ==
  ASSUME KInv, NEW p, NEW i, NEW ps, PcbsOK(ps), ListOK(ps, lru), Listed(ps, lru),
         lru # <<>>, FrameStoreSize >= 3,
         p \in DOMAIN ps, i \in DOMAIN ps[p].pages, Fault(p, i, ps),
         Owned(mem, nextPid), p < nextPid
  PROVE  SameScripts(ps, pcbs') /\ Owned(mem', nextPid)
  <1>1. CASE Loads(p, i, ps, mem, lru)
    BY <1>1, LoadsScripts
  <1>2. ASSUME NEW o, NEW h, lru[Len(lru)] = <<o, h>>, NEW evicted, evicted = Evicted(ps, o, h),
               NEW m, m = EvictedMem(mem, ps[o].pages[h]),
               Loads(p, i, evicted, m, Without(lru, Len(lru)))
        PROVE  SameScripts(ps, pcbs') /\ Owned(mem', nextPid)
    <2>1. /\ o \in DOMAIN ps /\ h \in DOMAIN ps[o].pages
          /\ DOMAIN evicted = DOMAIN ps /\ evicted[o] = EvictedPcb(ps[o], h)
          /\ \A r \in DOMAIN ps \ {o} : evicted[r] = ps[r]
          /\ DOMAIN evicted[o].pages = DOMAIN ps[o].pages /\ PcbsOK(evicted)
      BY <1>2, EvictKeeps
    <2>2. Owned(m, nextPid)
      BY <1>2, EvictedOwned
    <2>3. p \in DOMAIN evicted /\ i \in DOMAIN evicted[p].pages
      BY <2>1
    <2>4. SameScripts(evicted, pcbs') /\ Owned(mem', nextPid)
      BY <1>2, <2>1, <2>2, <2>3, LoadsScripts
    <2>5. SameScripts(ps, evicted)
      <3>1. PICK q, new : q = ps[o] /\ new = evicted[o]
        OBVIOUS
      <3>2. q \in PcbType /\ h \in DOMAIN q.pages /\ new = EvictedPcb(q, h)
        BY <2>1, <3>1 DEF PcbsOK
      <3>3. new.script = q.script
        BY <3>2, EvictedIs
      <3>4. QED
        BY <2>1, <3>1, <3>3 DEF SameScripts
    <2>6. QED
      BY <2>4, <2>5 DEF SameScripts
  <1>3. QED
    BY <1>1, <1>2, FaultIs

(* Whether all scripts are plain depends on the scripts only. *)
LEMMA SamePlain ==
  ASSUME SameScripts(pcbs, pcbs'), AllPlain'
  PROVE  AllPlain
  <1>1. ASSUME NEW p \in DOMAIN pcbs PROVE Plain(pcbs[p].script)
    <2>1. Plain(pcbs'[p].script)
      BY <1>1, Zenon DEF AllPlain, SameScripts
    <2>2. QED
      BY <1>1, <2>1, Zenon DEF SameScripts
  <1>2. QED
    BY <1>1, Zenon DEF AllPlain

-----------------------------------------------------------------------------
(* The steps.                                                              *)

(* A step after which no process is left. *)
LEMMA EmptyKeeps ==
  ASSUME Owned(mem', nextPid'), pcbs' = <<>>, lru' = <<>>, cpu' = Idle
  PROVE  OInv'
  <1>1. /\ CorePlain(mem', pcbs', lru', Starts(Lost(mem', pcbs')))
        /\ WaitPlain(pcbs', lru', queue') /\ SyncPlain(pcbs', queue', Idle)
        /\ TurnPlain(pcbs', lru', Idle) /\ EvenPlain(pcbs', Idle) /\ RanPlain(pcbs', executed')
    BY EmptyPlain
  <1>2. \A p \in DOMAIN pcbs' : Ran(pcbs'[p]) = 0
    <2>1. DOMAIN pcbs' = {}
      OBVIOUS
    <2>2. QED
      BY <2>1
  <1>3. PlainInv'
    BY <1>1, <1>2 DEF PlainInv
  <1>4. QED
    BY <1>3 DEF OInv

(* In the memory of a new shell every line is free. *)
LEMMA FreshOwned == Owned([x \in Position |-> FreeLine], 1)
  <1>. DEFINE m == [x \in Position |-> FreeLine]
  <1>1. \A x \in Position : m[x] = FreeLine
    OBVIOUS
  <1>. HIDE DEF m
  <1>2. \A x \in Position : m[x] = [var |-> m[x].var, value |-> m[x].value]
    BY <1>1 DEF FreeLine
  <1>3. \A x \in Frames : m[x].var = None
    BY <1>1, FramesInStore DEF FreeLine
  <1>4. QED
    BY <1>2, <1>3, Zenon DEF Owned, m

(* A shell that was started again. *)
LEMMA RestartedO ==
  ASSUME Restarted
  PROVE  OInv'
  <1>1. /\ mem' = [x \in Position |-> FreeLine] /\ nextPid' = 1
        /\ pcbs' = <<>> /\ lru' = <<>> /\ cpu' = Idle
    BY DEF Restarted, Fresh
  <1>2. Owned(mem', nextPid')
    BY <1>1, FreshOwned
  <1>3. QED
    BY <1>1, <1>2, EmptyKeeps

(* The first state is that of a shell that has just been restarted. *)
LEMMA OInvInit == Init => OInv
  <1>1. ASSUME Init PROVE OInv
    <2>1. /\ mem = [x \in Position |-> FreeLine] /\ nextPid = 1
          /\ pcbs = <<>> /\ lru = <<>> /\ cpu = Idle /\ phase = "prompt"
      BY <1>1 DEF Init, Fresh
    <2>2. /\ CorePlain(mem, pcbs, lru, Starts(Lost(mem, pcbs)))
          /\ WaitPlain(pcbs, lru, queue) /\ SyncPlain(pcbs, queue, Idle)
          /\ TurnPlain(pcbs, lru, Idle) /\ EvenPlain(pcbs, Idle) /\ RanPlain(pcbs, executed)
      BY <2>1, EmptyPlain
    <2>3. PlainInv
      BY <2>1, <2>2 DEF PlainInv
    <2>4. Owned(mem, nextPid)
      BY <2>1, FreshOwned
    <2>5. QED
      BY <2>1, <2>3, <2>4 DEF OInv
  <1>2. QED
    BY <1>1

(* At the prompt there is no process, and an empty LRU list. *)
LEMMA PromptIs ==
  ASSUME KInv, OInv, phase = "prompt"
  PROVE  pcbs = <<>> /\ lru = <<>> /\ cpu = Idle
  <1>1. pcbs = <<>> /\ cpu = Idle
    BY DEF OInv, KInv, TurnOK
  <1>2. DOMAIN pcbs = {}
    BY <1>1
  <1>3. lru \in Seq(Pid \X Nat) /\ \A p \in Pid, i \in Nat : ~In(<<p, i>>, lru)
    BY <1>2 DEF KInv, ListOK
  <1>4. lru = <<>>
    <2>1. SUFFICES ASSUME lru # <<>> PROVE FALSE
      OBVIOUS
    <2>2. 1 \in 1 .. Len(lru) /\ lru[1] \in Pid \X Nat
      BY <1>3, <2>1
    <2>3. PICK p \in Pid, i \in Nat : lru[1] = <<p, i>>
      BY <2>2
    <2>4. QED
      BY <1>3, <2>2, <2>3 DEF In
  <1>5. QED
    BY <1>1, <1>4

(* One lemma per action: a command at the prompt finds no process. *)
LEMMA SetO ==
  ASSUME KInv, OInv, NEW v \in Var, NEW d \in Value, Set(v, d)
  PROVE  OInv'
  <1>1. /\ phase = "prompt" /\ UNCHANGED <<pcbs, lru, cpu, nextPid>>
        /\ \/ mem' = mem
           \/ \E x \in VarZone : mem' = [mem EXCEPT ![x] = [var |-> v, value |-> d]]
    BY DEF Set
  <1>2. Owned(mem, nextPid) /\ DOMAIN mem = Position
    BY DEF OInv, KInv, MemOK
  <1>3. ASSUME NEW x \in VarZone, mem' = [mem EXCEPT ![x] = [var |-> v, value |-> d]]
        PROVE  Owned(mem', nextPid)
    <2>1. \A y \in Position : mem'[y] = mem[y] \/ (y = x /\ mem'[y] = [var |-> v, value |-> d])
      BY <1>2, <1>3
    <2>2. \A y \in Position : mem'[y] = [var |-> mem'[y].var, value |-> mem'[y].value]
      <3>1. ASSUME NEW y \in Position
            PROVE  mem'[y] = [var |-> mem'[y].var, value |-> mem'[y].value]
        <4>1. CASE mem'[y] = mem[y]
          <5>1. mem[y] = [var |-> mem[y].var, value |-> mem[y].value]
            BY <1>2, <3>1, Zenon DEF Owned
          <5>2. QED
            BY <4>1, <5>1, Zenon
        <4>2. CASE mem'[y] = [var |-> v, value |-> d]
          BY <4>2
        <4>3. QED
          BY <2>1, <3>1, <4>1, <4>2
      <3>2. QED
        BY <3>1
    <2>3. \A y \in Frames : mem'[y] = mem[y]
      BY <1>3, <2>1, FramesInStore
    <2>4. \A y \in Frames : mem'[y].var = None \/ (mem'[y].var \in Pid /\ mem'[y].var < nextPid)
      BY <1>2, <2>3, Zenon DEF Owned
    <2>5. QED
      BY <2>2, <2>4, Zenon DEF Owned
  <1>4. Owned(mem', nextPid')
    BY <1>1, <1>2, <1>3
  <1>5. QED
    BY <1>1, <1>4, PromptIs, EmptyKeeps

(* Lines that become free stay lines. *)
LEMMA FreedOwned ==
  ASSUME NEW m, NEW next, Owned(m, next), NEW new,
         \A x \in Position : new[x] = FreeLine \/ new[x] = m[x]
  PROVE  Owned(new, next)
  <1>1. ASSUME NEW x \in Position
        PROVE  new[x] = [var |-> new[x].var, value |-> new[x].value]
    <2>1. CASE new[x] = FreeLine
      BY <2>1 DEF FreeLine
    <2>2. CASE new[x] = m[x]
      <3>1. m[x] = [var |-> m[x].var, value |-> m[x].value]
        BY <1>1, Zenon DEF Owned
      <3>2. QED
        BY <2>2, <3>1, Zenon
    <2>3. QED
      BY <1>1, <2>1, <2>2
  <1>2. \A x \in Frames : new[x].var = None \/ (new[x].var \in Pid /\ new[x].var < next)
    BY FramesInStore DEF Owned, FreeLine
  <1>3. QED
    BY <1>1, <1>2, Zenon DEF Owned

(* resetmem touches the variables only. *)
LEMMA ResetMemO ==
  ASSUME KInv, OInv, ResetMem
  PROVE  OInv'
  <1>1. phase = "prompt" /\ UNCHANGED <<pcbs, lru, cpu, nextPid>>
    BY DEF ResetMem
  <1>2. \A x \in Position : mem'[x] = FreeLine \/ mem'[x] = mem[x]
    BY DEF ResetMem
  <1>3. Owned(mem', nextPid')
    BY <1>1, <1>2, FreedOwned DEF OInv
  <1>4. QED
    BY <1>1, <1>3, PromptIs, EmptyKeeps

(* exec makes no process before new_proc. *)
LEMMA ExecO ==
  ASSUME KInv, OInv, NEW scripts, Exec(scripts)
  PROVE  OInv'
  <1>1. phase = "prompt" /\ UNCHANGED <<mem, pcbs, lru, cpu, nextPid>>
    BY DEF Exec
  <1>2. Owned(mem', nextPid')
    BY <1>1 DEF OInv
  <1>3. QED
    BY <1>1, <1>2, PromptIs, EmptyKeeps

(* No process is left when run_proc_RR returns. *)
LEMMA FinishO ==
  ASSUME KInv, OInv, Finish
  PROVE  OInv'
  <1>1. nextPid' = nextPid /\ pcbs' = <<>> /\ lru' = <<>> /\ cpu' = Idle
    BY DEF Finish
  <1>2. \A x \in Position : mem'[x] = FreeLine \/ mem'[x] = mem[x]
    BY DEF Finish
  <1>3. Owned(mem', nextPid')
    BY <1>1, <1>2, FreedOwned DEF OInv
  <1>4. QED
    BY <1>1, <1>3, EmptyKeeps

(* The start of a turn. *)
LEMMA DispatchO ==
  ASSUME KInv, OInv, Dispatch
  PROVE  OInv'
  <1>1. UNCHANGED <<mem, pcbs, nextPid, phase>>
    BY DEF Dispatch
  <1>2. AllPlain' => AllPlain
    BY <1>1 DEF AllPlain
  <1>3. AllPlain => PlainInv'
    BY DispatchPlain DEF OInv
  <1>4. QED
    BY <1>1, <1>2, <1>3 DEF OInv

(* A line that runs. *)
LEMMA RunLineO ==
  ASSUME KInv, OInv, RunLine
  PROVE  OInv'
  <1>1. phase = "running" /\ cpu # Idle /\ UNCHANGED <<mem, nextPid, phase>>
    BY DEF RunLine
  <1>2. PICK p : p = cpu.pid
    OBVIOUS
  <1>3. PICK i \in DOMAIN pcbs[p].pages :
          Current(p, i) /\ pcbs' = [pcbs EXCEPT ![p] = Advanced(p, i)]
    BY <1>2, Zenon DEF RunLine
  <1>4. p \in DOMAIN pcbs /\ pcbs[p] \in PcbType
    BY <1>1, <1>2, <1>3, RunningIs
  <1>5. PICK new : new = Advanced(p, i)
    OBVIOUS
  <1>6. new.script = pcbs[p].script
    BY <1>3, <1>4, <1>5, AdvancedIs
  <1>7. SameScripts(pcbs, pcbs')
    BY <1>3, <1>4, <1>5, <1>6 DEF SameScripts
  <1>8. AllPlain' => PlainInv'
    BY <1>7, SamePlain, RunLineKeepsPlain DEF OInv
  <1>9. QED
    BY <1>1, <1>8 DEF OInv

(* A page fault. *)
LEMMA PageFaultO ==
  ASSUME KInv, OInv, PageFault
  PROVE  OInv'
  <1>1. phase = "running" /\ cpu # Idle /\ UNCHANGED <<nextPid, phase>>
    BY DEF PageFault
  <1>2. PICK p : p = cpu.pid
    OBVIOUS
  <1>3. PICK i \in DOMAIN pcbs[p].pages : Current(p, i) /\ Fault(p, i, pcbs)
    BY <1>2, Zenon DEF PageFault
  <1>4. p \in DOMAIN pcbs
    BY <1>1, <1>2, <1>3, RunningIs
  <1>5. /\ PcbsOK(pcbs) /\ ListOK(pcbs, lru) /\ Listed(pcbs, lru)
        /\ lru # <<>> /\ FrameStoreSize >= 3 /\ p < nextPid
    BY <1>4 DEF KInv
  <1>6. SameScripts(pcbs, pcbs') /\ Owned(mem', nextPid)
    BY <1>3, <1>4, <1>5, FaultScripts DEF OInv
  <1>7. AllPlain' => PlainInv'
    BY <1>6, SamePlain, PageFaultPlain DEF OInv
  <1>8. QED
    BY <1>1, <1>6, <1>7 DEF OInv

(* A command that returns 1: the script is not plain. *)
LEMMA ReturnOneO ==
  ASSUME KInv, OInv, ReturnOne
  PROVE  OInv'
  <1>1. phase = "running" /\ cpu # Idle /\ UNCHANGED <<nextPid, phase>>
    BY DEF ReturnOne
  <1>2. PICK p : p = cpu.pid
    OBVIOUS
  <1>3. PICK i \in DOMAIN pcbs[p].pages :
          Current(p, i) /\ Fault(p, i, [pcbs EXCEPT ![p] = Advanced(p, i)])
    BY <1>2, Zenon DEF ReturnOne
  <1>4. PICK ps : ps = [pcbs EXCEPT ![p] = Advanced(p, i)]
    OBVIOUS
  <1>5. p \in DOMAIN pcbs /\ pcbs[p] \in PcbType
    BY <1>1, <1>2, <1>3, RunningIs
  <1>6. /\ PcbsOK(ps) /\ ListOK(ps, lru) /\ Listed(ps, lru) /\ DOMAIN ps = DOMAIN pcbs
        /\ \A r \in DOMAIN pcbs : DOMAIN ps[r].pages = DOMAIN pcbs[r].pages
    BY <1>1, <1>2, <1>3, <1>4, AdvancedKeeps
  <1>7. lru # <<>> /\ FrameStoreSize >= 3 /\ p < nextPid
    BY <1>5 DEF KInv
  <1>8. p \in DOMAIN ps /\ i \in DOMAIN ps[p].pages /\ Fault(p, i, ps)
    BY <1>3, <1>4, <1>5, <1>6
  <1>9. SameScripts(ps, pcbs') /\ Owned(mem', nextPid)
    BY <1>6, <1>7, <1>8, FaultScripts DEF OInv
  <1>10. PICK new : new = Advanced(p, i)
    OBVIOUS
  <1>11. new.script = pcbs[p].script
    BY <1>3, <1>5, <1>10, AdvancedIs
  <1>12. SameScripts(pcbs, ps)
    BY <1>4, <1>5, <1>10, <1>11 DEF SameScripts
  <1>13. SameScripts(pcbs, pcbs')
    BY <1>9, <1>12 DEF SameScripts
  <1>14. AllPlain' => FALSE
    BY <1>13, SamePlain, ReturnOnePlain DEF OInv
  <1>15. QED
    BY <1>1, <1>9, <1>14 DEF OInv

(* The process that NewProc adds runs the script that exec was given, and  *)
(* the frames its pages took bear its name.                                *)
LEMMA AdmittedOwned ==
  ASSUME KInv, OInv, NewProc, ~Restarted,
         NEW p \in Pid, p = nextPid, p \notin DOMAIN pcbs, NEW s \in Script, s = Head(loading)
  PROVE  \E q, m : Admits(p, q, m) /\ q.script = s /\ Owned(m, nextPid + 1)
  <1>1. PICK q : q = FreshPcb(s)
    OBVIOUS
  <1>2. q \in PcbType /\ q.script = s
    BY <1>1, FreshPcbType DEF FreshPcb
  <1>3. PICK n \in Nat \ {0} : DOMAIN q.pages = 0 .. n - 1
    BY <1>1, FreshPcbType
  <1>4. 0 \in DOMAIN q.pages /\ (DOMAIN q.pages # {0} => 1 \in DOMAIN q.pages)
    BY <1>3
  <1>5. Owned(mem, nextPid + 1) /\ p < nextPid + 1
    <2>1. nextPid \in Int
      BY DEF Pid
    <2>2. QED
      BY <2>1, OwnedMore DEF OInv
  <1>6. ASSUME NEW k, NEW one, one = LoadedPcb(q, 0, k), NEW m, m = LoadedMem(mem, p, q, k)
        PROVE  one.script = s /\ Owned(m, nextPid + 1)
    <2>1. one.script = s
      BY <1>2, <1>4, <1>6, LoadedIs
    <2>2. Owned(m, nextPid + 1)
      BY <1>5, <1>6, LoadedOwned
    <2>3. QED
      BY <2>1, <2>2
  <1>7. ASSUME NEW k, Admit(LoadedPcb(q, 0, k), LoadedMem(mem, p, q, k))
        PROVE  \E a, m : Admits(p, a, m) /\ a.script = s /\ Owned(m, nextPid + 1)
    <2>1. PICK one, m : one = LoadedPcb(q, 0, k) /\ m = LoadedMem(mem, p, q, k)
      OBVIOUS
    <2>2. one.script = s /\ Owned(m, nextPid + 1)
      BY <1>6, <2>1
    <2>3. Admit(one, m)
      BY <1>7, <2>1
    <2>4. Admits(p, one, m)
      BY <2>3, AdmitIs
    <2>5. QED
      BY <2>2, <2>4
  <1>8. ASSUME NEW k, k \in 0 .. FrameStoreSize - 3, NEW h, DOMAIN q.pages # {0},
               NEW one, one = LoadedPcb(q, 0, k), NEW m, m = LoadedMem(mem, p, q, k),
               Admit(LoadedPcb(one, 1, h), LoadedMem(m, p, one, h))
        PROVE  \E a, m2 : Admits(p, a, m2) /\ a.script = s /\ Owned(m2, nextPid + 1)
    <2>1. one.script = s /\ Owned(m, nextPid + 1)
      BY <1>6, <1>8
    <2>2. one \in PcbType /\ DOMAIN one.pages = DOMAIN q.pages
      BY <1>2, <1>4, <1>8, LoadedPcbType
    <2>3. PICK two, m2 : two = LoadedPcb(one, 1, h) /\ m2 = LoadedMem(m, p, one, h)
      OBVIOUS
    <2>4. two.script = s
      BY <1>4, <1>8, <2>1, <2>2, <2>3, LoadedIs
    <2>5. Owned(m2, nextPid + 1)
      BY <1>5, <2>1, <2>3, LoadedOwned
    <2>6. Admit(two, m2)
      BY <1>8, <2>3
    <2>7. Admits(p, two, m2)
      BY <2>6, AdmitIs
    <2>8. QED
      BY <2>4, <2>5, <2>7
  <1>9. \/ \E k : Admit(LoadedPcb(q, 0, k), LoadedMem(mem, p, q, k))
        \/ \E k, h : /\ k \in 0 .. FrameStoreSize - 3 /\ DOMAIN q.pages # {0}
                     /\ Admit(LoadedPcb(LoadedPcb(q, 0, k), 1, h),
                              LoadedMem(LoadedMem(mem, p, q, k), p, LoadedPcb(q, 0, k), h))
    BY <1>1, Zenon DEF NewProc, FirstFit, Fits
  <1>10. QED
    BY <1>7, <1>8, <1>9

(* new_proc, or the exit of the shell in PCB_init. *)
LEMMA NewProcO ==
  ASSUME KInv, OInv, NewProc
  PROVE  OInv'
  <1>1. CASE Restarted
    BY <1>1, RestartedO
  <1>2. CASE ~Restarted
    <2>1. /\ phase = "loading" /\ loading \in Seq(Script) /\ loading # <<>>
          /\ nextPid + Len(loading) - 1 <= MaxPid /\ nextPid \in 1 .. MaxPid + 1
          /\ \A p \in DOMAIN pcbs : p < nextPid
      BY DEF NewProc, KInv
    <2>2. PICK s \in Script : s = Head(loading)
      BY <2>1
    <2>3. nextPid \in Pid /\ nextPid \notin DOMAIN pcbs
      <3>1. Len(loading) \in Nat \ {0}
        BY <2>1
      <3>2. QED
        BY <2>1, <3>1, KernelAssumption DEF Pid
    <2>4. PICK p \in Pid : p = nextPid
      BY <2>3
    <2>5. p \notin DOMAIN pcbs
      BY <2>3, <2>4
    <2>6. PICK q, m : Admits(p, q, m) /\ q.script = s /\ Owned(m, nextPid + 1)
      BY <1>2, <2>2, <2>4, <2>5, AdmittedOwned
    <2>7. nextPid' = nextPid + 1 /\ phase' # "prompt"
      BY <1>2, Zenon DEF NewProc, Admit
    <2>8. Owned(mem', nextPid')
      BY <2>6, <2>7 DEF Admits
    <2>9. \A x \in Frames : mem[x].var # p
      <3>1. ASSUME NEW x \in Frames, mem[x].var = p PROVE FALSE
        <4>1. p # None /\ p < p
          BY <2>4, <3>1, KernelAssumption DEF OInv, Owned
        <4>2. QED
          BY <4>1 DEF Pid
      <3>2. QED
        BY <3>1
    <2>10. ASSUME AllPlain' PROVE PlainInv'
      <3>1. PICK ps2 : ps2 = pcbs'
        OBVIOUS
      <3>2. /\ DOMAIN ps2 = DOMAIN pcbs \cup {p} /\ ps2[p] = q
            /\ \A r \in DOMAIN pcbs : ps2[r] = pcbs[r]
        BY <2>6, <3>1 DEF Admits, Joins
      <3>3. \A r \in DOMAIN ps2 : Plain(ps2[r].script)
        BY <2>10, <3>1, Zenon DEF AllPlain
      <3>4. Plain(s)
        BY <2>6, <3>2, <3>3, Zenon
      <3>5. AllPlain
        BY <3>2, <3>3, Zenon DEF AllPlain
      <3>6. KInv'
        BY NewProcKeeps
      <3>7. QED
        BY <1>2, <2>2, <2>4, <2>5, <2>9, <3>4, <3>5, <3>6, NewProcPlain DEF OInv
    <2>11. QED
      BY <2>7, <2>8, <2>10 DEF OInv
  <1>3. QED
    BY <1>1, <1>2

(* Every step keeps the invariant. *)
LEMMA OInvStep == KInv /\ OInv /\ [Next]_vars => OInv'
  <1>1. ASSUME KInv, OInv, Kernel PROVE OInv'
    BY <1>1, NewProcO, DispatchO, RunLineO, PageFaultO, ReturnOneO, FinishO DEF Kernel
  <1>2. ASSUME KInv, OInv, Command PROVE OInv'
    BY <1>2, SetO, ResetMemO, ExecO, RestartedO DEF Command, Quit
  <1>3. ASSUME OInv, UNCHANGED vars PROVE OInv'
    BY <1>3 DEF vars, OInv, PlainInv, AllPlain
  <1>4. QED
    BY <1>1, <1>2, <1>3 DEF Next

-----------------------------------------------------------------------------
(* OInv, with KInv, holds in every reachable state.                        *)
LEMMA PlainInvariant == Spec => [](KInv /\ OInv)
  <1>1. Init => KInv /\ OInv
    BY KInvInit, OInvInit
  <1>2. (KInv /\ OInv) /\ [Next]_vars => (KInv /\ OInv)'
    BY KInvStep, OInvStep
  <1>3. QED
    BY <1>1, <1>2, PTL DEF Spec

(* The parts of the invariant that speak of one page of a plain process.   *)
LEMMA PlainPage ==
  ASSUME KInv, OInv, AllPlain, NEW p \in DOMAIN pcbs, NEW i \in DOMAIN pcbs[p].pages
  PROVE  /\ pcbs[p] \in PcbType /\ PcbPlain(pcbs[p]) /\ i \in Nat /\ 3 * i < Size(pcbs[p])
         /\ pcbs[p].pages[i].index[0] \in Frames \cup {NeverLoaded}
         /\ \/ PageHere(mem, p, pcbs[p], i, Starts(Lost(mem, pcbs)))
            \/ PageAway(pcbs[p], i)
  <1>1. pcbs[p] \in PcbType
    BY DEF KInv, PcbsOK
  <1>2. PagesPlain(mem, pcbs, Starts(Lost(mem, pcbs)))
    BY DEF OInv, PlainInv, CorePlain
  <1>3. /\ PcbPlain(pcbs[p])
        /\ \/ PageHere(mem, p, pcbs[p], i, Starts(Lost(mem, pcbs)))
           \/ PageAway(pcbs[p], i)
    BY <1>2, Zenon DEF PagesPlain
  <1>4. i \in Nat /\ 3 * i < Size(pcbs[p])
    <2>1. DOMAIN pcbs[p].pages = {h \in 0 .. Size(pcbs[p]) : 3 * h < Size(pcbs[p])}
      BY <1>3 DEF PcbPlain
    <2>2. i \in 0 .. Size(pcbs[p]) /\ 3 * i < Size(pcbs[p])
      BY <2>1
    <2>3. QED
      BY <2>2
  <1>5. pcbs[p].pages[i].index[0] \in Frames \cup {NeverLoaded}
    <2>1. PICK q : q = pcbs[p]
      OBVIOUS
    <2>2. q.pages[i] \in Page /\ 0 \in Offset
      BY <1>1, <2>1, PcbTypeIs DEF PcbType, Offset
    <2>3. q.pages[i].index \in [Offset -> Frames \cup {NeverLoaded}]
      BY <2>2 DEF Page
    <2>4. QED
      BY <2>1, <2>2, <2>3
  <1>6. QED
    BY <1>1, <1>3, <1>4, <1>5

(* A page table entry that is valid leads to the line of the script that   *)
(* belongs there, whatever frames were taken, evicted and loaded again     *)
(* before: load_PAGE reads on in source_file where it stopped, which is    *)
(* right only because no page is evicted before its lines have run.        *)
THEOREM MappingIsCoherent == Spec => []MappingCoherent
  <1>1. ASSUME KInv, OInv, AllPlain, NEW p \in DOMAIN pcbs, NEW i \in DOMAIN pcbs[p].pages,
               NEW j \in Offset, pcbs[p].pages[i].valid[j]
        PROVE  mem[pcbs[p].pages[i].index[j]] = [var |-> p, value |-> <<p, 3 * i + j + 1>>]
    <2>1. PICK S, q, x : /\ S = Starts(Lost(mem, pcbs)) /\ q = pcbs[p]
                         /\ x = q.pages[i].index[j]
      OBVIOUS
    <2>2. PageHere(mem, p, q, i, S)
      <3>1. PageHere(mem, p, q, i, S) \/ PageAway(q, i)
        BY <1>1, <2>1, PlainPage
      <3>2. ~PageAway(q, i)
        BY <1>1, <2>1, Zenon DEF PageAway
      <3>3. QED
        BY <3>1, <3>2
    <2>3. x = q.pages[i].index[0] + j /\ q.pages[i].index[0] \in S
      BY <2>1, <2>2, Zenon DEF PageHere
    <2>4. S \subseteq 0 .. FrameStoreSize - 3
      BY <2>1 DEF Starts
    <2>5. x \in Position
      <3>1. PICK k : k = q.pages[i].index[0]
        OBVIOUS
      <3>2. k \in 0 .. FrameStoreSize - 3 /\ x = k + j
        BY <2>3, <2>4, <3>1
      <3>3. x \in 0 .. FrameStoreSize - 1
        BY <1>1, <3>2, KernelAssumption DEF Offset
      <3>4. QED
        BY <3>3 DEF Position, Frames
    <2>6. q.pages[i].valid[j]
      BY <1>1, <2>1
    <2>7. 3 * i + j < Size(q)
      BY <2>2, <2>6, Zenon DEF PageHere
    <2>8. mem[x].var = p /\ mem[x].value = <<p, 3 * i + j + 1>>
      BY <2>1, <2>2, <2>7, Zenon DEF PageHere
    <2>9. mem[x] = [var |-> mem[x].var, value |-> mem[x].value]
      BY <1>1, <2>5, Zenon DEF OInv, Owned
    <2>10. QED
      BY <2>1, <2>8, <2>9, Zenon
  <1>2. KInv /\ OInv => MappingCoherent
    BY <1>1, Zenon DEF MappingCoherent
  <1>3. QED
    BY <1>2, PlainInvariant, PTL

(* LRU_CACHE has an entry for each page that is in memory, one only, and   *)
(* none for a page that was evicted, though remove_elem finds an entry by  *)
(* where its page starts and not by its process.                           *)
THEOREM LRUIsExact == Spec => []LRUExact
  <1>1. ASSUME KInv, OInv, AllPlain, NEW p \in DOMAIN pcbs, NEW i \in DOMAIN pcbs[p].pages
        PROVE  Resident(p, i) <=> \E n \in 1 .. Len(lru) : lru[n] = <<p, i>>
    <2>1. PICK S, q : S = Starts(Lost(mem, pcbs)) /\ q = pcbs[p]
      OBVIOUS
    <2>2. /\ PageHere(mem, p, q, i, S) \/ PageAway(q, i)
          /\ PcbPlain(q) /\ i \in Nat /\ 3 * i < Size(q)
      BY <1>1, <2>1, PlainPage
    <2>3. S \subseteq 0 .. FrameStoreSize - 3
      BY <2>1 DEF Starts
    <2>4. 0 \in Offset
      BY DEF Offset
    <2>5. Here(q, i) <=> In(<<p, i>>, lru)
      BY <1>1, <2>1, Zenon DEF OInv, PlainInv, CorePlain, ListPlain
    <2>6. CASE PageAway(q, i)
      <3>1. \A j \in Offset : ~q.pages[i].valid[j]
        BY <2>6, Zenon DEF PageAway
      <3>2. ~Here(q, i)
        BY <2>4, <3>1, Zenon DEF Here
      <3>3. ~Resident(p, i)
        BY <2>1, <3>1, Zenon DEF Resident
      <3>4. QED
        BY <2>5, <3>2, <3>3 DEF In
    <2>7. CASE PageHere(mem, p, q, i, S)
      <3>1. 3 * i + 0 < Size(q)
        BY <2>2
      <3>2. q.pages[i].valid[0]
        BY <2>4, <2>7, <3>1, Zenon DEF PageHere
      <3>3. q.pages[i].index[0] # NeverLoaded
        <4>1. q.pages[i].index[0] \in 0 .. FrameStoreSize - 3
          BY <2>3, <2>7 DEF PageHere
        <4>2. QED
          BY <4>1, KernelAssumption DEF NeverLoaded
      <3>4. Resident(p, i)
        BY <2>1, <2>4, <3>2, <3>3, Zenon DEF Resident
      <3>5. QED
        BY <2>5, <3>2, <3>4 DEF Here, In
    <2>8. QED
      BY <2>2, <2>6, <2>7
  <1>2. ASSUME OInv, AllPlain
        PROVE  \A n, m \in 1 .. Len(lru) : lru[n] = lru[m] => n = m
    BY <1>2 DEF OInv, PlainInv, CorePlain, ListPlain, Distinct
  <1>3. KInv /\ OInv => LRUExact
    BY <1>1, <1>2, Zenon DEF LRUExact
  <1>4. QED
    BY <1>3, PlainInvariant, PTL

(* The lines a process ran are the first lines of its script, in the order *)
(* they are written in, whatever page faults and turns of other processes  *)
(* came between them.                                                      *)
THEOREM ScriptsRunInOrder == Spec => []ExecutedInOrder
  <1>1. ASSUME KInv, OInv, AllPlain, NEW p \in DOMAIN pcbs
        PROVE  InOrder(p)
    <2>1. PICK n : n = Ran(pcbs[p])
      OBVIOUS
    <2>2. executed[p] = [k \in 1 .. n |-> <<p, k>>]
      BY <1>1, <2>1, Zenon DEF OInv, PlainInv, RanPlain
    <2>3. n \in Nat
      <3>1. PcbsOK(pcbs) /\ PagesPlain(mem, pcbs, Starts(Lost(mem, pcbs)))
        BY <1>1, Zenon DEF KInv, OInv, PlainInv, CorePlain
      <3>2. QED
        BY <1>1, <2>1, <3>1, RanIs
    <2>4. Len(executed[p]) = n
      BY <2>2, <2>3
    <2>5. QED
      BY <2>2, <2>4, Zenon DEF InOrder
  <1>2. KInv /\ OInv => ExecutedInOrder
    BY <1>1, Zenon DEF ExecutedInOrder
  <1>3. QED
    BY <1>2, PlainInvariant, PTL

(* When run_proc_RR returns, every line of every plain script has run, and *)
(* no line of the frame store is left in the name of its process: the loop *)
(* ends when the program counters of the queued pages are all 3, and       *)
(* free_PCB finds the frames of a process from its page table alone.       *)
THEOREM RunsFinishClean == Spec => FinishIsClean
  <1>1. ASSUME KInv, OInv, AllPlain, Finish, NEW p \in DOMAIN pcbs
        PROVE  Len(executed[p]) = Len(pcbs[p].script.lines)
    <2>1. PICK q : q = pcbs[p]
      OBVIOUS
    <2>2. PcbsOK(pcbs) /\ PagesPlain(mem, pcbs, Starts(Lost(mem, pcbs)))
      BY <1>1, Zenon DEF KInv, OInv, PlainInv, CorePlain
    <2>3. /\ PcbPlain(q) /\ Ran(q) \in Nat /\ Size(q) \in Nat \ {0} /\ q.size \in Nat
          /\ Ran(q) = Size(q) - q.size
          /\ \A k \in Nat : 3 * k < Size(q) => k \in DOMAIN q.pages
      BY <1>1, <2>1, <2>2, RanIs
    <2>4. q.size = 0
      <3>1. SUFFICES ASSUME q.size > 0 PROVE FALSE
        BY <2>3
      <3>2. cpu = Idle /\ QueueDone
        BY <1>1 DEF Finish
      <3>3. cpu.pid # p
        BY <2>2, <3>2, NoneIsNoPid DEF Idle
      <3>4. \E n \in 1 .. Len(queue) : queue[n] = p
        BY <1>1, <2>1, <3>1, <3>3 DEF KInv, NoProcessLost
      <3>5. \A i \in DOMAIN q.pages : q.pages[i].pc = 3
        BY <2>1, <3>2, <3>4, Zenon DEF QueueDone, PcbDone
      <3>6. PICK i \in Nat : 3 * i <= Ran(q) /\ Ran(q) < 3 * i + 3
        <4>1. Ran(q) \div 3 \in Nat /\ 3 * (Ran(q) \div 3) <= Ran(q) /\ Ran(q) < 3 * (Ran(q) \div 3) + 3
          BY <2>3
        <4>2. QED
          BY <4>1
      <3>7. i \in DOMAIN q.pages
        BY <2>3, <3>1, <3>6
      <3>8. q.pages[i].pc = IF Ran(q) <= 3 * i THEN 0
                            ELSE IF 3 * i + 3 <= Ran(q) THEN 3 ELSE Ran(q) - 3 * i
        BY <2>3, <3>7, Zenon DEF PcbPlain
      <3>9. q.pages[i].pc # 3
        BY <2>3, <3>6, <3>8
      <3>10. QED
        BY <3>5, <3>7, <3>9
    <2>5. PICK n \in Nat : n = Ran(q)
      BY <2>3
    <2>6. executed[p] = [k \in 1 .. n |-> <<p, k>>]
      BY <1>1, <2>1, <2>5, Zenon DEF OInv, PlainInv, RanPlain
    <2>7. Len(executed[p]) = n /\ n = Size(q)
      BY <2>3, <2>4, <2>5, <2>6
    <2>8. QED
      BY <2>1, <2>7 DEF Size
  <1>2. ASSUME KInv, OInv, AllPlain, Finish, NEW p \in DOMAIN pcbs, NEW x \in Frames,
               mem'[x].var = p
        PROVE  FALSE
    <2>1. p # None
      BY <1>2, NoneIsNoPid DEF KInv
    <2>2. /\ x \in Cleared(p) => mem'[x] = FreeLine
          /\ mem'[x] = FreeLine \/ mem'[x] = mem[x]
      <3>1. mem' = [y \in Position |->
                      IF \E r \in DOMAIN pcbs : y \in Cleared(r) THEN FreeLine ELSE mem[y]]
        BY <1>2 DEF Finish
      <3>2. x \in Position
        BY <1>2, FramesInStore
      <3>. HIDE DEF Cleared
      <3>3. QED
        BY <1>2, <3>1, <3>2
    <2>3. mem'[x] # FreeLine
      BY <1>2, <2>1 DEF FreeLine
    <2>4. mem[x].var = p
      BY <1>2, <2>2, <2>3, Zenon
    <2>5. OwnedPlain(mem, pcbs)
      BY <1>2, Zenon DEF OInv, PlainInv, CorePlain
    <2>6. PICK i \in DOMAIN pcbs[p].pages : x \in Three(pcbs[p].pages[i].index[0])
      BY <1>2, <2>4, <2>5, Zenon DEF OwnedPlain
    <2>7. PICK k : k = pcbs[p].pages[i].index[0]
      OBVIOUS
    <2>8. k \in Frames \cup {NeverLoaded}
      BY <1>2, <2>7, PlainPage
    <2>9. k \in Int /\ x \in Int
      BY <1>2, <2>8, KernelAssumption DEF Frames, NeverLoaded
    <2>10. PICK d \in Offset : x = k + d
      <3>1. x - k \in Offset /\ x = k + (x - k)
        BY <2>6, <2>7, <2>9 DEF Three, Offset
      <3>2. QED
        BY <3>1
    <2>11. 0 \in Offset
      BY DEF Offset
    <2>12. x \in Cleared(p)
      BY <2>7, <2>10, <2>11 DEF Cleared
    <2>13. QED
      BY <2>2, <2>3, <2>12
  <1>3. ASSUME [Next]_vars, phase = "running", phase' = "prompt"
        PROVE  Finish
    BY <1>3 DEF Next, Kernel, Command, NewProc, Dispatch, RunLine, PageFault, ReturnOne, Set,
                ResetMem, Exec, Quit, vars
  <1>. DEFINE Clean ==
         phase = "running" /\ phase' = "prompt" /\ pcbs # <<>> /\ AllPlain =>
           \A p \in DOMAIN pcbs :
             /\ Len(executed[p]) = Len(pcbs[p].script.lines)
             /\ \A x \in Frames : mem'[x].var # p
  <1>4. (KInv /\ OInv) /\ [Next]_vars => [Clean]_vars
    <2>1. ASSUME KInv, OInv, [Next]_vars PROVE Clean
      BY <1>1, <1>2, <1>3, <2>1, Zenon
    <2>2. QED
      BY <2>1
  <1>. HIDE DEF Clean
  <1>5. Spec => [][Clean]_vars
    BY <1>4, PlainInvariant, PTL DEF Spec
  <1>6. QED
    BY <1>5 DEF FinishIsClean, Clean
===============================================================================
