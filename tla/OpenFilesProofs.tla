--------------------------- MODULE OpenFilesProofs ---------------------------
(***************************************************************************)
(* Proofs about OpenFiles.  The invariant, IInv, says of the state that a  *)
(* command finds that it is Good: names and inode sectors are different,   *)
(* no two files share a sector, an inode in memory is the one on disk or   *)
(* has grown, and every file ends in zeros.  Each operator that a command  *)
(* is made of makes a Good state of a Good one (the lemmas ...Keeps), and  *)
(* so does a chain of them: the folds over files, sectors and bytes are    *)
(* taken apart by FoldFacts, and the steps of a fold are put together      *)
(* again by counting up.                                                   *)
(*                                                                         *)
(* Good is weaker than what a command that allocates needs.  Such a        *)
(* command starts from a Clean state, one where recover(0) has not linked  *)
(* a free sector: Settled is its guard (Changes).                          *)
(*                                                                         *)
(* The lemmas ...Refines say that each command is a step of FileStore, the *)
(* bytes of every file and the positions of the open files alone: what it  *)
(* writes it writes where FileStore says, and no sector it gives away,     *)
(* rewrites or frees holds a byte of another file.  Defragment needs more  *)
(* than the invariant, that the emptied disk has room for every file       *)
(* again: the files' sectors are apart, so they fit (Spaces, RemadeMore).  *)
(*                                                                         *)
(* RecoverFinds needs a second invariant, RInv: where a file was removed,  *)
(* free sectors still hold its inode and its bytes, until the next         *)
(* allocation.  It is proved for users who take no name that recover(0)    *)
(* gives (OwnNames).  Compacts says which sectors defragment gives a file: *)
(* after the removals only the system's are in use, and every file takes   *)
(* the lowest that are free, which follow each other.                      *)
(***************************************************************************)
EXTENDS OpenFiles, FiniteSetTheorems, SequenceTheorems, TLAPS

-----------------------------------------------------------------------------
(* The types of the records that the operators pass along.                 *)
InodeRec == {x \in InodeRecord : SectorsFor(x.len) <= Len(x.blocks)}
Record == DataRecord \cup InodeRec
DirEntry == [kind : {"entry"}, name : FileName, inode : Sector \ System]
Handle == [inode : Sector, pos : Int]
Handles == UNION {[D -> Handle] : D \in SUBSET FileName}
State ==
  [used : SUBSET Sector, disk : [Sector -> Record],
   dir : Seq({NoEntry} \cup DirEntry),
   inodes : [Sector -> Record \cup {NotOpen}], table : Handles]

Slots(d) == {k \in DOMAIN d : d[k].kind = "entry"}

-----------------------------------------------------------------------------
(* The steps of the folds, and what the folds come to.                     *)
NameStep(e, names, x) == IF x.kind = "entry" THEN Append(names, x.name) ELSE names
NameFold == INSTANCE FoldFacts WITH Op <- NameStep

(* The least of a set of naturals is one of them and below all of them.    *)
LEMMA MinFacts ==
  ASSUME NEW S \in SUBSET Nat, S # {}
  PROVE  Min(S) \in S /\ \A y \in S : Min(S) <= y
  <1>1. \E x \in S : \A y \in S : x <= y
    BY NameFold!LeastNat
  <1>2. QED
    BY <1>1 DEF Min

(* The greatest of a set of integers that has a greatest.                  *)
LEMMA MaxFacts ==
  ASSUME NEW n \in Nat, NEW S \in SUBSET (0 .. n), S # {}
  PROVE  Max(S) \in S /\ \A y \in S : Max(S) >= y
  <1> DEFINE T == {n - x : x \in S}
  <1>1. T \in SUBSET Nat /\ T # {}
    <2>1. \A x \in S : n - x \in Nat
      OBVIOUS
    <2>2. QED
      BY <2>1
  <1>2. PICK t \in T : \A y \in T : t <= y
    <2> HIDE DEF T
    <2> QED BY <1>1, NameFold!LeastNat
  <1>3. PICK x \in S : t = n - x
    OBVIOUS
  <1>4. ASSUME NEW y \in S PROVE x >= y
    <2>1. n - y \in T
      OBVIOUS
    <2>2. t <= n - y
      BY <1>2, <2>1
    <2>3. x \in Int /\ y \in Int
      OBVIOUS
    <2>4. QED
      BY <1>3, <2>2, <2>3
  <1>5. QED
    BY <1>4 DEF Max

-----------------------------------------------------------------------------
(* The directory.                                                          *)
Distinct(d) == \A j, k \in Slots(d) : d[j].name = d[k].name => j = k

(* The directory of a state is a sequence of entries.                      *)
LEMMA DirType ==
  ASSUME NEW s \in State
  PROVE  /\ s.dir \in Seq({NoEntry} \cup DirEntry)
         /\ \A k \in Slots(s.dir) : k \in DOMAIN s.dir /\ s.dir[k] \in DirEntry
  <1>1. s.dir \in Seq({NoEntry} \cup DirEntry)
    BY DEF State
  <1>2. PICK d : d = s.dir
    OBVIOUS
  <1>3. ASSUME NEW k \in Slots(d) PROVE k \in DOMAIN d /\ d[k] \in DirEntry
    <2>1. k \in DOMAIN d /\ d[k].kind = "entry"
      BY DEF Slots
    <2>2. d[k] \in {NoEntry} \cup DirEntry
      BY <1>1, <1>2, <2>1
    <2>3. QED
      BY <2>1, <2>2 DEF NoEntry
  <1>4. QED
    BY <1>1, <1>2, <1>3

(* The files are the names in the slots that are in use.                   *)
LEMMA FilesAre ==
  ASSUME NEW s
  PROVE  Files(s) = {s.dir[k].name : k \in Slots(s.dir)}
  BY DEF Files, Slots

(* What a slot in use holds, and the slot that SlotOf finds for a name.    *)
LEMMA SlotFacts ==
  ASSUME NEW s \in State, NEW f \in Files(s)
  PROVE  /\ SlotOf(s, f) \in Slots(s.dir)
         /\ s.dir[SlotOf(s, f)].name = f
         /\ InodeOf(s, f) = s.dir[SlotOf(s, f)].inode
         /\ InodeOf(s, f) \in Sector \ System
         /\ f \in FileName
  <1>1. \E k \in DOMAIN s.dir : s.dir[k].kind = "entry" /\ s.dir[k].name = f
    BY DEF Files
  <1>2. SlotOf(s, f) \in Slots(s.dir) /\ s.dir[SlotOf(s, f)].name = f
    BY <1>1 DEF SlotOf, Slots
  <1>3. InodeOf(s, f) = s.dir[SlotOf(s, f)].inode
    BY DEF InodeOf
  <1>4. s.dir[SlotOf(s, f)] \in DirEntry
    BY <1>2, DirType
  <1>5. QED
    BY <1>2, <1>3, <1>4 DEF DirEntry

(* Where names are different the slot of a name is the one that holds it.  *)
LEMMA SlotIs ==
  ASSUME NEW s, Distinct(s.dir), NEW k \in Slots(s.dir)
  PROVE  /\ s.dir[k].name \in Files(s)
         /\ SlotOf(s, s.dir[k].name) = k
         /\ InodeOf(s, s.dir[k].name) = s.dir[k].inode
  <1>1. s.dir[k].name \in Files(s)
    BY FilesAre
  <1>2. PICK f : f = s.dir[k].name
    OBVIOUS
  <1>3. k \in DOMAIN s.dir /\ s.dir[k].kind = "entry"
    BY DEF Slots
  <1>4. SlotOf(s, f) \in Slots(s.dir) /\ s.dir[SlotOf(s, f)].name = f
    BY <1>2, <1>3 DEF SlotOf, Slots
  <1>5. SlotOf(s, f) = k
    BY <1>2, <1>4 DEF Distinct
  <1>6. QED
    BY <1>1, <1>2, <1>5 DEF InodeOf

(* Files and their inode sectors depend on the directory only.             *)
LEMMA SameDir ==
  ASSUME NEW s, NEW t, t.dir = s.dir
  PROVE  /\ Files(t) = Files(s)
         /\ \A f : InodeOf(t, f) = InodeOf(s, f)
  BY DEF Files, InodeOf, SlotOf

(* e is the directory d with one more slot in use, k, which names i by f. *)
OneMore(d, e, f, i, k) ==
  /\ k \notin Slots(d)
  /\ Slots(e) = Slots(d) \cup {k}
  /\ e[k] = Entry(f, i)
  /\ \A j \in Slots(d) : e[j] = d[j]

(* dir_add gives a name that is new an entry, and leaves the others alone. *)
LEMMA AddedSlot ==
  ASSUME NEW d \in Seq({NoEntry} \cup DirEntry), NEW f \in FileName, NEW i \in Sector \ System
  PROVE  /\ Added(d, f, i) \in Seq({NoEntry} \cup DirEntry)
         /\ \E k : OneMore(d, Added(d, f, i), f, i, k)
  <1>1. Entry(f, i) \in DirEntry /\ Entry(f, i).kind = "entry"
    BY DEF Entry, DirEntry
  <1> DEFINE free == {k \in DOMAIN d : d[k].kind = "free"}
             new == Added(d, f, i)
  <1>2. CASE free = {}
    <2>1. new = Append(d, Entry(f, i))
      BY <1>2 DEF Added
    <2>2. PICK x \in DirEntry : x = Entry(f, i) /\ x.kind = "entry"
      BY <1>1
    <2>3. new \in Seq({NoEntry} \cup DirEntry)
      BY <2>1, <2>2
    <2>4. /\ DOMAIN d = 1 .. Len(d) /\ Len(d) \in Nat
          /\ DOMAIN new = 1 .. Len(d) + 1 /\ new[Len(d) + 1] = x
          /\ \A j \in 1 .. Len(d) : new[j] = d[j]
      BY <2>1, <2>2
    <2> HIDE DEF new
    <2>5. Len(d) + 1 \notin Slots(d)
      BY <2>4 DEF Slots
    <2>6. ASSUME NEW j PROVE j \in Slots(new) <=> j \in Slots(d) \cup {Len(d) + 1}
      BY <2>2, <2>4 DEF Slots
    <2>7. Slots(new) = Slots(d) \cup {Len(d) + 1}
      BY <2>6
    <2>8. \A j \in Slots(d) : new[j] = d[j]
      BY <2>4 DEF Slots
    <2>9. QED
      <3>1. OneMore(d, new, f, i, Len(d) + 1)
        BY <2>2, <2>4, <2>5, <2>7, <2>8 DEF OneMore
      <3>2. QED
        BY <2>3, <3>1, Zenon DEF new
  <1>3. CASE free # {}
    <2>1. free \in SUBSET Nat
      OBVIOUS
    <2>2. PICK m : m = Min(free)
      OBVIOUS
    <2>3. m \in free
      <3> HIDE DEF free
      <3> QED BY <1>3, <2>1, <2>2, MinFacts
    <2>4. m \in DOMAIN d /\ d[m].kind = "free"
      BY <2>3
    <2>5. new = [d EXCEPT ![m] = Entry(f, i)]
      BY <1>3, <2>2 DEF Added
    <2>6. PICK x \in DirEntry : x = Entry(f, i) /\ x.kind = "entry"
      BY <1>1
    <2>7. new \in Seq({NoEntry} \cup DirEntry)
      BY <2>4, <2>5, <2>6
    <2>8. /\ DOMAIN new = DOMAIN d /\ new[m] = x
          /\ \A j \in DOMAIN d : j # m => new[j] = d[j]
      BY <2>4, <2>5, <2>6
    <2> HIDE DEF new
    <2>9. m \notin Slots(d)
      BY <2>4 DEF Slots
    <2>10. ASSUME NEW j PROVE j \in Slots(new) <=> j \in Slots(d) \cup {m}
      BY <2>4, <2>6, <2>8 DEF Slots
    <2>11. Slots(new) = Slots(d) \cup {m}
      BY <2>10
    <2>12. \A j \in Slots(d) : new[j] = d[j]
      BY <2>8, <2>9 DEF Slots
    <2>13. QED
      <3>1. OneMore(d, new, f, i, m)
        BY <2>6, <2>8, <2>9, <2>11, <2>12 DEF OneMore
      <3>2. QED
        BY <2>7, <3>1, Zenon DEF new
  <1>4. QED
    BY <1>2, <1>3

(* After dir_add names are still different, and one more is a file.        *)
LEMMA AddedIs ==
  ASSUME NEW s \in State, Distinct(s.dir), NEW f \in FileName \ Files(s),
         NEW i \in Sector \ System, NEW t, t.dir = Added(s.dir, f, i)
  PROVE  /\ t.dir \in Seq({NoEntry} \cup DirEntry)
         /\ Distinct(t.dir)
         /\ Files(t) = Files(s) \cup {f}
  <1>1. s.dir \in Seq({NoEntry} \cup DirEntry)
    BY DirType
  <1>2. PICK d \in Seq({NoEntry} \cup DirEntry) : d = s.dir
    BY <1>1
  <1>3. PICK e : e = t.dir
    OBVIOUS
  <1>11. e = Added(d, f, i) /\ f \in FileName
    BY <1>2, <1>3
  <1>12. e \in Seq({NoEntry} \cup DirEntry) /\ \E k : OneMore(d, e, f, i, k)
    BY <1>11, AddedSlot, Zenon
  <1>4. PICK k : /\ k \notin Slots(d)
                 /\ Slots(e) = Slots(d) \cup {k}
                 /\ e[k] = Entry(f, i)
                 /\ \A j \in Slots(d) : e[j] = d[j]
    BY <1>12 DEF OneMore
  <1>5. e \in Seq({NoEntry} \cup DirEntry)
    BY <1>12
  <1>6. e[k].name = f /\ e[k].inode = i
    BY <1>4 DEF Entry
  <1>7. \A j \in Slots(d) : d[j].name \in Files(s) /\ d[j].name # f
    BY <1>2, FilesAre
  <1>8. Distinct(e)
    <2>1. SUFFICES ASSUME NEW a \in Slots(e), NEW b \in Slots(e), e[a].name = e[b].name
                   PROVE  a = b
      BY DEF Distinct
    <2>2. CASE a \in Slots(d) /\ b \in Slots(d)
      BY <1>2, <1>4, <2>1, <2>2 DEF Distinct
    <2>3. CASE a = k /\ b \in Slots(d)
      BY <1>4, <1>6, <1>7, <2>1, <2>3
    <2>4. CASE a \in Slots(d) /\ b = k
      BY <1>4, <1>6, <1>7, <2>1, <2>4
    <2>5. QED
      BY <1>4, <2>2, <2>3, <2>4
  <1>9. Files(t) = Files(s) \cup {f}
    <2>1. Files(t) = {e[j].name : j \in Slots(e)}
      BY <1>3, FilesAre
    <2>2. Files(s) = {d[j].name : j \in Slots(d)}
      BY <1>2, FilesAre
    <2>3. \A j \in Slots(d) : e[j].name = d[j].name
      BY <1>4
    <2>4. QED
      BY <1>4, <1>6, <2>1, <2>2, <2>3
  <1>10. QED
    BY <1>3, <1>5, <1>8, <1>9

(* dir_add changes no other name's inode sector.                           *)
LEMMA AddedInodes ==
  ASSUME NEW s \in State, Distinct(s.dir), NEW f \in FileName \ Files(s),
         NEW i \in Sector \ System, NEW t, t.dir = Added(s.dir, f, i), NEW g \in Files(t)
  PROVE  InodeOf(t, g) = IF g = f THEN i ELSE InodeOf(s, g)
  <1>1. PICK d \in Seq({NoEntry} \cup DirEntry) : d = s.dir
    BY DirType
  <1>2. PICK e : e = t.dir
    OBVIOUS
  <1>3. PICK k : /\ k \notin Slots(d)
                 /\ Slots(e) = Slots(d) \cup {k}
                 /\ e[k] = Entry(f, i)
                 /\ \A j \in Slots(d) : e[j] = d[j]
    <2>1. e = Added(d, f, i) /\ f \in FileName
      BY <1>1, <1>2
    <2>2. \E k : OneMore(d, e, f, i, k)
      BY <2>1, AddedSlot, Zenon
    <2>3. QED
      BY <2>2 DEF OneMore
  <1>4. e[k].name = f /\ e[k].inode = i
    BY <1>3 DEF Entry
  <1>5. Distinct(e)
    BY <1>2, AddedIs
  <1>6. PICK j \in Slots(e) : e[j].name = g
    BY <1>2, FilesAre
  <1>7. InodeOf(t, g) = e[j].inode
    BY <1>2, <1>5, <1>6, SlotIs
  <1>8. CASE j = k
    BY <1>4, <1>6, <1>7, <1>8
  <1>9. CASE j \in Slots(d)
    <2>1. e[j] = d[j]
      BY <1>3, <1>9
    <2>2. InodeOf(s, d[j].name) = d[j].inode /\ d[j].name \in Files(s)
      BY <1>1, <1>9, SlotIs
    <2>3. QED
      BY <1>6, <1>7, <2>1, <2>2
  <1>10. QED
    BY <1>3, <1>6, <1>8, <1>9

(* dir_remove takes the entry of a name away, and leaves the others alone. *)
LEMMA ErasedSlots ==
  ASSUME NEW d \in Seq({NoEntry} \cup DirEntry), NEW f
  PROVE  /\ Erased(d, f) \in Seq({NoEntry} \cup DirEntry)
         /\ Slots(Erased(d, f)) = {k \in Slots(d) : d[k].name # f}
         /\ \A k \in Slots(Erased(d, f)) : Erased(d, f)[k] = d[k]
  <1> DEFINE rest == [k \in DOMAIN d |->
                        IF d[k].kind = "entry" /\ d[k].name = f THEN NoEntry ELSE d[k]]
             S == {0} \cup {k \in DOMAIN d : rest[k].kind = "entry"}
             new == Erased(d, f)
  <1>1. PICK n \in Nat : n = Len(d) /\ DOMAIN d = 1 .. n
    OBVIOUS
  <1>2. PICK r : r = rest
    OBVIOUS
  <1>3. /\ DOMAIN r = 1 .. n
        /\ r \in Seq({NoEntry} \cup DirEntry) /\ Len(r) = n
    <2>1. \A k \in 1 .. n : d[k] \in {NoEntry} \cup DirEntry
      BY <1>1
    <2>2. r \in [1 .. n -> {NoEntry} \cup DirEntry]
      BY <1>1, <1>2, <2>1
    <2>3. QED
      BY <2>2
  <1>4. \A k \in 1 .. n : r[k].kind = "entry" <=> k \in Slots(d) /\ d[k].name # f
    <2>1. NoEntry.kind # "entry"
      BY DEF NoEntry
    <2>2. \A k \in 1 .. n : r[k] = IF d[k].kind = "entry" /\ d[k].name = f THEN NoEntry ELSE d[k]
      BY <1>1, <1>2
    <2>3. QED
      BY <1>1, <2>1, <2>2 DEF Slots
  <1>5. \A k \in 1 .. n : r[k].kind = "entry" => r[k] = d[k]
    <2>1. NoEntry.kind # "entry"
      BY DEF NoEntry
    <2>2. \A k \in 1 .. n : r[k] = IF d[k].kind = "entry" /\ d[k].name = f THEN NoEntry ELSE d[k]
      BY <1>1, <1>2
    <2>3. QED
      BY <2>1, <2>2
  <1>6. S = {0} \cup {k \in 1 .. n : r[k].kind = "entry"}
    BY <1>1, <1>2
  <1>7. PICK last : last = Max(S)
    OBVIOUS
  <1>8. last \in 0 .. n /\ \A k \in 1 .. n : r[k].kind = "entry" => k <= last
    <2>1. S \in SUBSET (0 .. n) /\ S # {}
      <3> HIDE DEF S
      <3> QED BY <1>6
    <2>2. last \in S /\ \A y \in S : last >= y
      <3> HIDE DEF S
      <3> QED BY <1>7, <2>1, MaxFacts
    <2>3. last \in 0 .. n
      BY <2>1, <2>2
    <2>4. QED
      <3> HIDE DEF S
      <3> QED BY <1>6, <2>2, <2>3
  <1>9. new = SubSeq(r, 1, last)
    BY <1>2, <1>7, Zenon DEF Erased
  <1> HIDE DEF new, S, rest
  <1>10. /\ new \in Seq({NoEntry} \cup DirEntry)
         /\ DOMAIN new = 1 .. last
         /\ \A k \in 1 .. last : new[k] = r[k]
    BY <1>3, <1>8, <1>9
  <1>11. ASSUME NEW k PROVE k \in Slots(new) <=> k \in Slots(d) /\ d[k].name # f
    <2>1. k \in Slots(new) <=> k \in 1 .. last /\ r[k].kind = "entry"
      BY <1>10 DEF Slots
    <2>2. k \in 1 .. last => k \in 1 .. n
      BY <1>8
    <2>3. k \in 1 .. n /\ r[k].kind = "entry" => k \in 1 .. last
      BY <1>8
    <2>4. k \in Slots(d) => k \in 1 .. n
      BY <1>1 DEF Slots
    <2>5. QED
      BY <1>4, <2>1, <2>2, <2>3, <2>4
  <1>12. Slots(new) = {k \in Slots(d) : d[k].name # f}
    BY <1>11
  <1>13. ASSUME NEW k \in Slots(new) PROVE new[k] = d[k]
    <2>1. k \in 1 .. last /\ r[k].kind = "entry" /\ k \in 1 .. n
      BY <1>8, <1>10 DEF Slots
    <2>2. QED
      BY <1>5, <1>10, <2>1
  <1>14. QED
    BY <1>10, <1>12, <1>13 DEF new

(* After dir_remove names are still different, and one is a file no more.  *)
LEMMA ErasedIs ==
  ASSUME NEW s \in State, Distinct(s.dir), NEW f, NEW t, t.dir = Erased(s.dir, f)
  PROVE  /\ t.dir \in Seq({NoEntry} \cup DirEntry)
         /\ Distinct(t.dir)
         /\ Files(t) = Files(s) \ {f}
  <1>1. s.dir \in Seq({NoEntry} \cup DirEntry)
    BY DirType
  <1>2. PICK d \in Seq({NoEntry} \cup DirEntry) : d = s.dir
    BY <1>1
  <1>3. PICK e : e = t.dir
    OBVIOUS
  <1>4. /\ e \in Seq({NoEntry} \cup DirEntry)
        /\ Slots(e) = {k \in Slots(d) : d[k].name # f}
        /\ \A k \in Slots(e) : e[k] = d[k]
    BY <1>2, <1>3, ErasedSlots
  <1>5. Distinct(e)
    BY <1>2, <1>4 DEF Distinct
  <1>6. Files(t) = Files(s) \ {f}
    <2>1. Files(t) = {e[j].name : j \in Slots(e)}
      BY <1>3, FilesAre
    <2>2. Files(s) = {d[j].name : j \in Slots(d)}
      BY <1>2, FilesAre
    <2>3. QED
      BY <1>4, <2>1, <2>2
  <1>7. QED
    BY <1>3, <1>4, <1>5, <1>6

(* The files of t have the inodes they have in s. *)
SameInodes(s, t) == \A g \in Files(t) : InodeOf(t, g) = InodeOf(s, g)

(* dir_remove changes no other name's inode sector.                        *)
LEMMA ErasedInodes ==
  ASSUME NEW s \in State, Distinct(s.dir), NEW f, NEW t, t.dir = Erased(s.dir, f)
  PROVE  SameInodes(s, t)
  <1> SUFFICES ASSUME NEW g \in Files(t) PROVE InodeOf(t, g) = InodeOf(s, g)
    BY DEF SameInodes
  <1>1. PICK d \in Seq({NoEntry} \cup DirEntry) : d = s.dir
    BY DirType
  <1>2. PICK e : e = t.dir
    OBVIOUS
  <1>3. /\ Slots(e) = {k \in Slots(d) : d[k].name # f}
        /\ \A k \in Slots(e) : e[k] = d[k]
    BY <1>1, <1>2, ErasedSlots
  <1>4. Distinct(e)
    BY <1>2, ErasedIs
  <1>5. PICK j \in Slots(e) : e[j].name = g
    BY <1>2, FilesAre
  <1>6. InodeOf(t, g) = e[j].inode
    BY <1>2, <1>4, <1>5, SlotIs
  <1>7. j \in Slots(d) /\ e[j] = d[j]
    BY <1>3, <1>5
  <1>8. InodeOf(s, d[j].name) = d[j].inode
    BY <1>1, <1>7, SlotIs
  <1>9. QED
    BY <1>5, <1>6, <1>7, <1>8

-----------------------------------------------------------------------------
(* The sectors that inode_reserve takes.                                   *)
Rank(S, t) == Cardinality({u \in S : u < t})

(* The sectors are a finite set, and so is each set of sectors.            *)
LEMMA SectorsFinite ==
  ASSUME NEW S \in SUBSET Sector
  PROVE  IsFiniteSet(S) /\ Cardinality(S) \in Nat
  <1>1. IsFiniteSet(Sector)
    <2>1. 0 \in Int /\ LastSector \in Int
      BY FilesAssumption
    <2>2. QED
      BY <2>1, FS_Interval DEF Sector
  <1>2. IsFiniteSet(S)
    BY <1>1, FS_Subset
  <1>3. QED
    BY <1>2, FS_CardinalityType

(* The greatest of some sectors has all the others below it.               *)
LEMMA RankOfMax ==
  ASSUME NEW S \in SUBSET Sector, S # {}
  PROVE  \E m \in S : {u \in S : u < m} = S \ {m} /\ Rank(S, m) = Cardinality(S) - 1
  <1>1. PICK n \in Nat : n = LastSector
    BY FilesAssumption
  <1>2. S \in SUBSET (0 .. n)
    BY <1>1 DEF Sector
  <1>3. PICK m \in S : \A y \in S : m >= y
    BY <1>2, MaxFacts
  <1>4. \A y \in S : y \in Int
    BY <1>2
  <1>5. {u \in S : u < m} = S \ {m}
    BY <1>3, <1>4
  <1>6. Cardinality(S \ {m}) = Cardinality(S) - 1
    BY SectorsFinite, FS_RemoveElement
  <1>7. QED
    BY <1>5, <1>6 DEF Rank

(* Every rank below the size of a set of sectors is the rank of one of     *)
(* them.                                                                   *)
LEMMA RankExists ==
  ASSUME NEW S \in SUBSET Sector, NEW k \in 0 .. Cardinality(S) - 1
  PROVE  \E t \in S : Rank(S, t) = k
  <1>1. PICK c \in Nat : c = Cardinality(S)
    BY SectorsFinite
  <1>2. \A y \in S : y \in Nat
    BY FilesAssumption DEF Sector
  <1>3. \A t : {u \in S : u < t} \in SUBSET Sector
    OBVIOUS
  <1>4. \A t : Rank(S, t) \in Nat
    BY <1>3, SectorsFinite DEF Rank
  <1> DEFINE T == {t \in S : Rank(S, t) >= k}
  <1>5. T # {}
    <2>1. S # {}
      BY <1>1, FS_EmptySet
    <2>2. PICK m \in S : Rank(S, m) = c - 1
      BY <1>1, <2>1, RankOfMax
    <2>3. c - 1 >= k
      BY <1>1
    <2>4. m \in T
      BY <2>2, <2>3
    <2>5. QED
      BY <2>4
  <1>6. T \in SUBSET Nat
    BY <1>2
  <1>7. PICK t \in T : \A y \in T : t <= y
    <2> HIDE DEF T
    <2> QED BY <1>5, <1>6, MinFacts
  <1>8. t \in S /\ t \in Nat /\ Rank(S, t) >= k
    BY <1>6
  <1> DEFINE B == {u \in S : u < t}
  <1>9. SUFFICES ASSUME Rank(S, t) > k PROVE FALSE
    BY <1>1, <1>4, <1>8
  <1>10. B \in SUBSET Sector /\ Rank(S, t) = Cardinality(B)
    BY DEF Rank
  <1>11. B # {}
    <2> HIDE DEF B
    <2> QED BY <1>1, <1>9, <1>10, FS_EmptySet
  <1>12. PICK b \in B : {u \in B : u < b} = B \ {b} /\ Rank(B, b) = Cardinality(B) - 1
    <2> HIDE DEF B
    <2> QED BY <1>10, <1>11, RankOfMax
  <1>13. b \in S /\ b \in Nat /\ b < t
    <2>1. b \in S /\ b < t
      BY <1>12
    <2>2. QED
      BY <1>2, <2>1
  <1>14. {u \in S : u < b} = {u \in B : u < b}
    <2>1. \A u \in S : u < b => u < t
      BY <1>2, <1>8, <1>13
    <2>2. QED
      BY <2>1
  <1>15. Rank(S, b) = Rank(B, b)
    BY <1>14 DEF Rank
  <1>16. Rank(S, b) >= k
    <2>1. PICK r \in Nat : r = Rank(S, t)
      BY <1>4
    <2>2. Rank(S, b) = r - 1
      BY <1>10, <1>12, <1>15, <2>1
    <2>3. r > k /\ k \in Int
      BY <1>1, <1>9, <2>1
    <2>4. QED
      BY <2>1, <2>2, <2>3
  <1>17. b \in T
    BY <1>13, <1>16
  <1>18. t <= b
    <2> HIDE DEF T
    <2> QED BY <1>7, <1>17
  <1>19. QED
    BY <1>8, <1>13, <1>18

Injective(q) == \A j, k \in 1 .. Len(q) : q[j] = q[k] => j = k

(* Ascending lists each sector of a set once, and nothing else.            *)
LEMMA AscendingFacts ==
  ASSUME NEW S \in SUBSET Sector
  PROVE  /\ Ascending(S) \in Seq(S)
         /\ Len(Ascending(S)) = Cardinality(S)
         /\ Injective(Ascending(S))
  <1>1. PICK c \in Nat : c = Cardinality(S)
    BY SectorsFinite
  <1>2. PICK q : q = Ascending(S)
    OBVIOUS
  <1>3. \A k \in 1 .. c : q[k] = CHOOSE t \in S : Rank(S, t) = k - 1
    BY <1>1, <1>2 DEF Ascending, Rank
  <1>4. ASSUME NEW k \in 1 .. c PROVE q[k] \in S /\ Rank(S, q[k]) = k - 1
    <2>1. k - 1 \in 0 .. Cardinality(S) - 1
      BY <1>1
    <2>2. \E t \in S : Rank(S, t) = k - 1
      BY <2>1, RankExists
    <2>3. q[k] = CHOOSE t \in S : Rank(S, t) = k - 1
      BY <1>3
    <2>4. QED
      BY <2>2, <2>3
  <1>5. DOMAIN q = 1 .. c
    BY <1>1, <1>2 DEF Ascending
  <1>6. q \in [1 .. c -> S]
    <2> DEFINE e(k) == CHOOSE t \in S : Cardinality({u \in S : u < t}) = k - 1
    <2>1. q = [k \in 1 .. c |-> e(k)]
      BY <1>1, <1>2, Zenon DEF Ascending
    <2> HIDE DEF e
    <2>2. \A k \in 1 .. c : q[k] \in S /\ q[k] = e(k)
      BY <1>4, <2>1
    <2>3. \A k \in 1 .. c : e(k) \in S
      BY <2>2
    <2>4. QED
      BY <2>1, <2>3
  <1>7. q \in Seq(S) /\ Len(q) = c
    BY <1>6
  <1>8. Injective(q)
    <2>1. SUFFICES ASSUME NEW j \in 1 .. c, NEW k \in 1 .. c, q[j] = q[k] PROVE j = k
      BY <1>7 DEF Injective
    <2>2. Rank(S, q[j]) = j - 1 /\ Rank(S, q[k]) = k - 1
      BY <1>4
    <2>3. j - 1 = k - 1
      BY <2>1, <2>2
    <2>4. QED
      BY <2>3
  <1>9. QED
    BY <1>1, <1>2, <1>7, <1>8

(* The lowest n of a set are among the set.                                *)
LEMMA LowestAmong ==
  ASSUME NEW S, NEW k
  PROVE  LowestOf(S, k) \in SUBSET S
  BY DEF LowestOf

-----------------------------------------------------------------------------
(* The invariant, of a state record.                                       *)
Mem(s, f) == InMemory(s, InodeOf(s, f))
Kept(s) == {f \in Files(s) : InodeOf(s, f) \in s.used}
BlocksOf(x) == {x.blocks[k] : k \in 1 .. Len(x.blocks)}
Own(s, f) == BlocksOf(Mem(s, f))

\* The inode on disk, of the one in memory.
Shrinks(x, y) ==
  /\ x.len = y.len /\ Len(x.blocks) <= Len(y.blocks)
  /\ \A k \in 1 .. Len(x.blocks) : x.blocks[k] = y.blocks[k]

\* Names and inode sectors are different.
Named(s) ==
  /\ Distinct(s.dir)
  /\ \A f, g \in Files(s) : InodeOf(s, f) = InodeOf(s, g) => f = g

(* The inode of a file is one on disk, and in memory has grown at most.    *)
Kinds(s) ==
  \A f \in Files(s) :
    LET i == InodeOf(s, f)
    IN /\ s.disk[i] \in InodeRec
       /\ s.inodes[i] # NotOpen =>
            s.inodes[i] \in InodeRec /\ Shrinks(s.disk[i], s.inodes[i])

\* A handle is of a file that is there, and has its inode.
Held(s) == \A f \in DOMAIN s.table : f \in Files(s) /\ s.table[f].inode = InodeOf(s, f)
\* An inode in memory of a sector that is free is the one on disk (recover(0)).
Spare(s) == \A i \in Sector \ s.used : s.inodes[i] # NotOpen => s.inodes[i] = s.disk[i]
\* An inode in memory of a sector in use has a handle.
Owners(s) ==
  \A i \in s.used : s.inodes[i] # NotOpen => \E f \in DOMAIN s.table : s.table[f].inode = i
\* A file whose inode sector is free was linked there by recover(0).
Strays(s) == \A f \in Files(s) : f \notin Kept(s) => f = Recovered(InodeOf(s, f))

\* No two files share a sector.
Apart(s) ==
  \A f \in Kept(s) :
    /\ Own(s, f) \subseteq s.used \ System
    /\ \A g \in Kept(s) :
         InodeOf(s, g) \notin Own(s, f) /\ (f # g => Own(s, f) \cap Own(s, g) = {})
    /\ Injective(Mem(s, f).blocks)

\* The last byte of a file, and what follows it in its sectors, is zero.
Place(k, h) == (k - 1) * SectorSize + h
ZeroEnd(d, x) ==
  \A k \in 1 .. Len(x.blocks), h \in 1 .. SectorSize :
    Place(k, h) >= x.len => Raw(d[x.blocks[k]])[h] = Nul
Zeroed(s) == \A f \in Kept(s) : ZeroEnd(s.disk, Mem(s, f))

Good(s) ==
  /\ s \in State /\ System \subseteq s.used
  /\ Named(s) /\ Kinds(s) /\ Held(s) /\ Spare(s) /\ Owners(s) /\ Strays(s)
  /\ Apart(s) /\ Zeroed(s)

\* Nothing is in memory, or in the directory, of a sector that is free.
Clean(s) ==
  /\ \A f \in Files(s) : InodeOf(s, f) \in s.used
  /\ \A i \in Sector : s.inodes[i] # NotOpen => i \in s.used

\* The inodes of the open files are in memory, but for those in F.
Alive(s, F) == \A f \in DOMAIN s.table : f \notin F => s.inodes[InodeOf(s, f)] # NotOpen

-----------------------------------------------------------------------------
(* The three kinds of record are different.                                *)
LEMMA NotOpenIsNone == /\ NotOpen \notin Record /\ NotOpen.kind = "none"
                       /\ \A x \in InodeRec : x.kind = "inode"
                       /\ \A x \in DataRecord : x.kind = "data"
  BY DEF NotOpen, Record, InodeRec, InodeRecord, DataRecord

(* The fields of an inode.                                                 *)
LEMMA InodeFields ==
  ASSUME NEW x \in InodeRec
  PROVE  /\ x.len \in 0 .. MaxLength /\ x.len \in Nat /\ x.blocks \in Seq(Sector)
         /\ Len(x.blocks) \in Nat /\ SectorsFor(x.len) <= Len(x.blocks)
         /\ \A k \in 1 .. Len(x.blocks) : x.blocks[k] \in Sector
         /\ BlocksOf(x) \subseteq Sector
  <1>1. x.len \in 0 .. MaxLength /\ x.blocks \in Seq(Sector) /\ SectorsFor(x.len) <= Len(x.blocks)
    BY DEF InodeRec, InodeRecord
  <1>2. x.len \in Nat
    BY <1>1, FilesAssumption
  <1>3. Len(x.blocks) \in Nat /\ \A k \in 1 .. Len(x.blocks) : x.blocks[k] \in Sector
    BY <1>1
  <1>4. QED
    BY <1>1, <1>2, <1>3 DEF BlocksOf

(* The inode on disk has no sector, and no end, that the one in memory     *)
(* lacks.                                                                  *)
LEMMA ShrinksFacts ==
  ASSUME NEW x \in InodeRec, NEW y \in InodeRec, Shrinks(x, y)
  PROVE  /\ BlocksOf(x) \subseteq BlocksOf(y)
         /\ Injective(y.blocks) => Injective(x.blocks)
         /\ \A d : ZeroEnd(d, y) => ZeroEnd(d, x)
  <1>1. PICK m \in Nat : m = Len(x.blocks)
    BY InodeFields
  <1>2. PICK n \in Nat : n = Len(y.blocks)
    BY InodeFields
  <1>3. x.len = y.len /\ m <= n /\ \A k \in 1 .. m : x.blocks[k] = y.blocks[k]
    BY <1>1, <1>2 DEF Shrinks
  <1>4. \A k \in 1 .. m : k \in 1 .. n
    BY <1>3
  <1>5. BlocksOf(x) \subseteq BlocksOf(y)
    BY <1>1, <1>2, <1>3, <1>4 DEF BlocksOf
  <1>6. Injective(y.blocks) => Injective(x.blocks)
    BY <1>1, <1>2, <1>3, <1>4 DEF Injective
  <1>7. ASSUME NEW d, ZeroEnd(d, y) PROVE ZeroEnd(d, x)
    BY <1>1, <1>2, <1>3, <1>4, <1>7 DEF ZeroEnd
  <1>8. QED
    BY <1>5, <1>6, <1>7

(* An inode that was just written is the same on disk.                     *)
LEMMA ShrinksSelf ==
  ASSUME NEW x \in InodeRec
  PROVE  Shrinks(x, x)
  BY InodeFields DEF Shrinks

(* The fields of a state.                                                  *)
LEMMA StateFields ==
  ASSUME NEW s \in State
  PROVE  /\ s.used \in SUBSET Sector
         /\ s.disk \in [Sector -> Record]
         /\ s.dir \in Seq({NoEntry} \cup DirEntry)
         /\ s.inodes \in [Sector -> Record \cup {NotOpen}]
         /\ s.table \in [DOMAIN s.table -> Handle]
         /\ DOMAIN s.table \in SUBSET FileName
  BY DEF State, Handles

(* The inode that a name leads to.                                         *)
LEMMA MemFacts ==
  ASSUME NEW s, Good(s), NEW f \in Files(s)
  PROVE  /\ InodeOf(s, f) \in Sector \ System
         /\ Mem(s, f) \in InodeRec
         /\ s.disk[InodeOf(s, f)] \in InodeRec
         /\ Shrinks(s.disk[InodeOf(s, f)], Mem(s, f))
         /\ s.inodes[InodeOf(s, f)] = NotOpen => Mem(s, f) = s.disk[InodeOf(s, f)]
         /\ s.inodes[InodeOf(s, f)] # NotOpen => Mem(s, f) = s.inodes[InodeOf(s, f)]
  <1>1. PICK i : i = InodeOf(s, f)
    OBVIOUS
  <1>2. i \in Sector \ System
    BY <1>1, SlotFacts DEF Good
  <1>3. /\ s.disk[i] \in InodeRec
        /\ s.inodes[i] # NotOpen => s.inodes[i] \in InodeRec /\ Shrinks(s.disk[i], s.inodes[i])
    BY <1>1 DEF Good, Kinds
  <1>4. Mem(s, f) = IF s.inodes[i] = NotOpen THEN s.disk[i] ELSE s.inodes[i]
    BY <1>1 DEF Mem, InMemory
  <1>5. QED
    BY <1>1, <1>2, <1>3, <1>4, ShrinksSelf

(* A step that keeps, of some files, the inode or what of it is on disk,   *)
(* their bytes and their sectors, keeps them apart and their ends zero.    *)
LEMMA LayoutKept ==
  ASSUME NEW s, Good(s), NEW t, Kept(t) \subseteq Kept(s),
         \A f \in Kept(t) :
           /\ InodeOf(t, f) = InodeOf(s, f)
           /\ Mem(t, f) \in InodeRec /\ Shrinks(Mem(t, f), Mem(s, f))
           /\ \A b \in Own(s, f) : b \in t.used /\ t.disk[b] = s.disk[b]
  PROVE  Apart(t) /\ Zeroed(t)
  <1>1. \A f \in Kept(s) : f \in Files(s)
    BY DEF Kept
  <1>2. ASSUME NEW f \in Kept(t)
        PROVE /\ Own(t, f) \subseteq Own(s, f)
              /\ Injective(Mem(t, f).blocks)
              /\ ZeroEnd(s.disk, Mem(t, f))
    <2>1. Mem(s, f) \in InodeRec
      BY <1>1, MemFacts
    <2>2. Injective(Mem(s, f).blocks) /\ ZeroEnd(s.disk, Mem(s, f))
      BY DEF Good, Apart, Zeroed
    <2>3. QED
      BY <2>1, <2>2, ShrinksFacts DEF Own
  <1>3. ASSUME NEW f \in Kept(t), NEW g \in Kept(t)
        PROVE  InodeOf(t, g) \notin Own(t, f) /\ (f # g => Own(t, f) \cap Own(t, g) = {})
    <2>1. InodeOf(s, g) \notin Own(s, f) /\ (f # g => Own(s, f) \cap Own(s, g) = {})
      BY DEF Good, Apart
    <2>2. QED
      BY <1>2, <2>1
  <1>4. ASSUME NEW f \in Kept(t) PROVE Own(t, f) \subseteq t.used \ System
    <2>1. Own(s, f) \subseteq s.used \ System
      BY DEF Good, Apart
    <2>2. QED
      BY <1>2, <2>1
  <1>5. Apart(t)
    BY <1>2, <1>3, <1>4 DEF Apart
  <1>6. ASSUME NEW f \in Kept(t) PROVE ZeroEnd(t.disk, Mem(t, f))
    <2>1. \A k \in 1 .. Len(Mem(t, f).blocks) : Mem(t, f).blocks[k] \in Own(s, f)
      BY <1>2 DEF Own, BlocksOf
    <2>2. \A k \in 1 .. Len(Mem(t, f).blocks) : t.disk[Mem(t, f).blocks[k]] = s.disk[Mem(t, f).blocks[k]]
      BY <2>1
    <2>3. QED
      BY <1>2, <2>2 DEF ZeroEnd
  <1>7. QED
    BY <1>5, <1>6 DEF Zeroed

-----------------------------------------------------------------------------
(* What the operators on states change.                                    *)
Frame(s, t) == t.used = s.used /\ t.disk = s.disk /\ t.dir = s.dir

(* What file_open by name does to a state: table and inodes only.          *)
LEMMA OpenedIs ==
  ASSUME NEW s \in State, NEW f \in FileName, f \notin DOMAIN s.table,
         NEW i \in Sector, i = InodeOf(s, f), InMemory(s, i) \in Record,
         NEW t, t = Opened(s, f)
  PROVE  /\ t \in State /\ Frame(s, t)
         /\ t.inodes = [s.inodes EXCEPT ![i] = InMemory(s, i)]
         /\ DOMAIN t.table = DOMAIN s.table \cup {f}
         /\ t.table[f] = [inode |-> i, pos |-> 0]
         /\ \A g \in DOMAIN s.table : t.table[g] = s.table[g]
  <1> DEFINE tab == With(s.table, f, [inode |-> i, pos |-> 0])
             ino == [s.inodes EXCEPT ![i] = InMemory(s, i)]
  <1>1. t = [s EXCEPT !.inodes = ino, !.table = tab]
    BY DEF Opened
  <1>2. /\ DOMAIN tab = DOMAIN s.table \cup {f}
        /\ tab[f] = [inode |-> i, pos |-> 0]
        /\ \A g \in DOMAIN s.table : tab[g] = s.table[g]
    BY DEF With
  <1>3. tab \in Handles
    <2>1. [inode |-> i, pos |-> 0] \in Handle
      BY DEF Handle
    <2>2. \A g \in DOMAIN s.table : s.table[g] \in Handle
      BY StateFields
    <2>3. DOMAIN s.table \in SUBSET FileName
      BY StateFields
    <2>4. tab \in [DOMAIN s.table \cup {f} -> Handle]
      BY <2>1, <2>2 DEF With
    <2>5. DOMAIN s.table \cup {f} \in SUBSET FileName
      BY <2>3
    <2> HIDE DEF tab
    <2>6. QED
      BY <2>4, <2>5 DEF Handles
  <1>4. ino \in [Sector -> Record \cup {NotOpen}]
    BY StateFields
  <1> HIDE DEF tab, ino
  <1>5. t \in State /\ t.inodes = ino /\ t.table = tab /\ Frame(s, t)
    BY <1>1, <1>3, <1>4 DEF State, Frame
  <1>6. QED
    BY <1>2, <1>5 DEF ino

(* What a seek does to a state: the position of one handle.                *)
LEMMA MovedIs ==
  ASSUME NEW s \in State, NEW f \in DOMAIN s.table, NEW p \in Int, NEW t, t = Moved(s, f, p)
  PROVE  /\ t \in State /\ Frame(s, t) /\ t.inodes = s.inodes
         /\ DOMAIN t.table = DOMAIN s.table
         /\ t.table[f] = [inode |-> s.table[f].inode, pos |-> p]
         /\ \A g \in DOMAIN s.table : g # f => t.table[g] = s.table[g]
  <1>1. PICK old \in Handle : old = s.table[f]
    BY StateFields
  <1> DEFINE tab == [s.table EXCEPT ![f].pos = p]
  <1>2. t = [s EXCEPT !.table = tab]
    BY DEF Moved
  <1>3. [old EXCEPT !.pos = p] = [inode |-> old.inode, pos |-> p] /\ [old EXCEPT !.pos = p] \in Handle
    BY DEF Handle
  <1>4. /\ DOMAIN tab = DOMAIN s.table
        /\ tab[f] = [old EXCEPT !.pos = p]
        /\ \A g \in DOMAIN s.table : g # f => tab[g] = s.table[g]
    BY <1>1
  <1>5. tab \in Handles
    <2>1. \A g \in DOMAIN s.table : s.table[g] \in Handle
      BY StateFields
    <2>2. tab \in [DOMAIN s.table -> Handle]
      BY <1>1, <1>3, <2>1
    <2>3. DOMAIN s.table \in SUBSET FileName
      BY StateFields
    <2> HIDE DEF tab
    <2>4. QED
      BY <2>2, <2>3 DEF Handles
  <1> HIDE DEF tab
  <1>6. t \in State /\ t.inodes = s.inodes /\ t.table = tab /\ Frame(s, t)
    BY <1>2, <1>5 DEF State, Frame
  <1>7. QED
    BY <1>1, <1>3, <1>4, <1>6

(* What file_close does to a state: one handle, and its inode.             *)
LEMMA ClosedIs ==
  ASSUME NEW s \in State, NEW f \in DOMAIN s.table, NEW t, t = Closed(s, f)
  PROVE  /\ t \in State /\ Frame(s, t)
         /\ t.inodes = [s.inodes EXCEPT ![s.table[f].inode] = NotOpen]
         /\ DOMAIN t.table = DOMAIN s.table \ {f}
         /\ \A g \in DOMAIN t.table : t.table[g] = s.table[g]
  <1> DEFINE tab == [g \in DOMAIN s.table \ {f} |-> s.table[g]]
             ino == [s.inodes EXCEPT ![s.table[f].inode] = NotOpen]
  <1>1. t = [s EXCEPT !.inodes = ino, !.table = tab]
    BY DEF Closed
  <1>2. tab \in Handles
    <2>1. \A g \in DOMAIN s.table : s.table[g] \in Handle
      BY StateFields
    <2>2. tab \in [DOMAIN s.table \ {f} -> Handle]
      BY <2>1
    <2>3. DOMAIN s.table \ {f} \in SUBSET FileName
      BY StateFields
    <2> HIDE DEF tab
    <2>4. QED
      BY <2>2, <2>3 DEF Handles
  <1>3. ino \in [Sector -> Record \cup {NotOpen}]
    BY StateFields
  <1>4. DOMAIN tab = DOMAIN s.table \ {f} /\ \A g \in DOMAIN tab : tab[g] = s.table[g]
    OBVIOUS
  <1> HIDE DEF tab, ino
  <1>5. t \in State /\ t.inodes = ino /\ t.table = tab /\ Frame(s, t)
    BY <1>1, <1>2, <1>3 DEF State, Frame
  <1>6. QED
    BY <1>4, <1>5 DEF ino

(* Where the directory is the same the files are.                          *)
LEMMA FrameFiles ==
  ASSUME NEW s, NEW t, Frame(s, t)
  PROVE  /\ Files(t) = Files(s) /\ Kept(t) = Kept(s)
         /\ \A f : InodeOf(t, f) = InodeOf(s, f)
  <1>1. Files(t) = Files(s) /\ \A f : InodeOf(t, f) = InodeOf(s, f)
    BY SameDir DEF Frame
  <1>2. QED
    BY <1>1 DEF Kept, Frame

(* Opening and closing inodes keeps the invariant.                         *)
LEMMA MemoryKeeps ==
  ASSUME NEW s, Good(s), NEW t \in State, Frame(s, t), Held(t), Owners(t),
         \A i \in Sector : t.inodes[i] \in {s.inodes[i], NotOpen, s.disk[i]}
  PROVE  Good(t)
  <1>1. /\ Files(t) = Files(s) /\ Kept(t) = Kept(s)
        /\ \A f : InodeOf(t, f) = InodeOf(s, f)
    BY FrameFiles
  <1>2. t.used = s.used /\ t.disk = s.disk /\ t.dir = s.dir
    BY DEF Frame
  <1>3. ASSUME NEW f \in Files(s)
        PROVE  /\ t.disk[InodeOf(t, f)] \in InodeRec
               /\ t.inodes[InodeOf(t, f)] # NotOpen =>
                    /\ t.inodes[InodeOf(t, f)] \in InodeRec
                    /\ Shrinks(t.disk[InodeOf(t, f)], t.inodes[InodeOf(t, f)])
               /\ Mem(t, f) \in InodeRec /\ Shrinks(Mem(t, f), Mem(s, f))
    <2>1. PICK i \in Sector : i = InodeOf(s, f)
      BY MemFacts
    <2>2. /\ Mem(s, f) \in InodeRec
          /\ s.disk[i] \in InodeRec
          /\ Shrinks(s.disk[i], Mem(s, f))
          /\ s.inodes[i] # NotOpen => Mem(s, f) = s.inodes[i]
      BY <2>1, MemFacts
    <2>3. t.inodes[i] \in {s.inodes[i], NotOpen, s.disk[i]}
      OBVIOUS
    <2>4. Mem(t, f) = IF t.inodes[i] = NotOpen THEN s.disk[i] ELSE t.inodes[i]
      BY <1>1, <1>2, <2>1 DEF Mem, InMemory
    <2>5. Shrinks(s.disk[i], s.disk[i]) /\ Shrinks(Mem(s, f), Mem(s, f))
      BY <2>2, ShrinksSelf
    <2>6. CASE t.inodes[i] = NotOpen
      BY <1>1, <1>2, <2>1, <2>2, <2>4, <2>6
    <2>7. CASE t.inodes[i] # NotOpen /\ t.inodes[i] = s.inodes[i]
      BY <1>1, <1>2, <2>1, <2>2, <2>4, <2>5, <2>7
    <2>8. CASE t.inodes[i] # NotOpen /\ t.inodes[i] = s.disk[i]
      BY <1>1, <1>2, <2>1, <2>2, <2>4, <2>5, <2>8
    <2>9. QED
      BY <2>3, <2>6, <2>7, <2>8
  <1>4. Kinds(t)
    BY <1>1, <1>3 DEF Kinds
  <1>5. Named(t)
    BY <1>1, <1>2 DEF Good, Named
  <1>6. Spare(t)
    <2>1. SUFFICES ASSUME NEW i \in Sector, i \notin s.used, t.inodes[i] # NotOpen
                   PROVE  t.inodes[i] = s.disk[i]
      BY <1>2 DEF Spare
    <2>2. s.inodes[i] # NotOpen => s.inodes[i] = s.disk[i]
      BY <2>1 DEF Good, Spare
    <2>3. QED
      BY <2>1, <2>2
  <1>7. Strays(t)
    BY <1>1 DEF Good, Strays
  <1>8. Apart(t) /\ Zeroed(t)
    <2>1. \A f \in Kept(s) : f \in Files(s)
      BY DEF Kept
    <2>2. ASSUME NEW f \in Kept(s), NEW b \in Own(s, f) PROVE b \in t.used /\ t.disk[b] = s.disk[b]
      BY <1>2 DEF Good, Apart
    <2>3. \A f \in Kept(t) :
           /\ InodeOf(t, f) = InodeOf(s, f)
           /\ Mem(t, f) \in InodeRec /\ Shrinks(Mem(t, f), Mem(s, f))
           /\ \A b \in Own(s, f) : b \in t.used /\ t.disk[b] = s.disk[b]
      BY <1>1, <1>3, <2>1, <2>2
    <2>4. QED
      BY <1>1, <2>3, LayoutKept
  <1>9. System \subseteq t.used
    BY <1>2 DEF Good
  <1>10. QED
    BY <1>4, <1>5, <1>6, <1>7, <1>8, <1>9 DEF Good

(* Opening a file.                                                         *)
LEMMA OpenedKeeps ==
  ASSUME NEW s, Good(s), NEW f \in Files(s), NEW F, NEW t, t = Opened(s, f)
  PROVE  /\ Good(t) /\ Frame(s, t)
         /\ DOMAIN t.table = DOMAIN s.table \cup {f}
         /\ t.table[f].pos = IF f \in DOMAIN s.table THEN s.table[f].pos ELSE 0
         /\ \A g \in DOMAIN s.table : t.table[g] = s.table[g]
         /\ Clean(s) => Clean(t)
         /\ Alive(s, F) => Alive(t, F)
         /\ Mem(t, f) = Mem(s, f)
  <1>1. CASE f \in DOMAIN s.table
    <2>1. t = s
      BY <1>1 DEF Opened
    <2>2. QED
      BY <1>1, <2>1 DEF Frame
  <1>2. CASE f \notin DOMAIN s.table
    <2>1. s \in State
      BY DEF Good
    <2>2. PICK i \in Sector : i = InodeOf(s, f)
      BY MemFacts
    <2>3. InMemory(s, i) \in InodeRec /\ InMemory(s, i) \in Record
      BY <2>2, MemFacts DEF Mem, Record
    <2>4. /\ t \in State /\ Frame(s, t)
          /\ t.inodes = [s.inodes EXCEPT ![i] = InMemory(s, i)]
          /\ DOMAIN t.table = DOMAIN s.table \cup {f}
          /\ t.table[f] = [inode |-> i, pos |-> 0]
          /\ \A g \in DOMAIN s.table : t.table[g] = s.table[g]
      <3>1. f \in FileName
        BY <2>1, SlotFacts
      <3>2. QED
        BY <1>2, <2>1, <2>2, <2>3, <3>1, OpenedIs
    <2>5. PICK x \in InodeRec : x = InMemory(s, i)
      BY <2>3
    <2>6. s.inodes \in [Sector -> Record \cup {NotOpen}]
      BY <2>1, StateFields
    <2>7. t.inodes[i] = x /\ \A j \in Sector : j # i => t.inodes[j] = s.inodes[j]
      BY <2>4, <2>5, <2>6
    <2>8. x \in {s.inodes[i], s.disk[i]}
      BY <2>5 DEF InMemory
    <2>9. \A j \in Sector : t.inodes[j] \in {s.inodes[j], NotOpen, s.disk[j]}
      BY <2>7, <2>8
    <2>10. /\ Files(t) = Files(s) /\ Kept(t) = Kept(s)
           /\ \A g : InodeOf(t, g) = InodeOf(s, g)
      BY <2>4, FrameFiles
    <2>11. Held(t)
      <3>1. SUFFICES ASSUME NEW g \in DOMAIN t.table
                     PROVE  g \in Files(t) /\ t.table[g].inode = InodeOf(t, g)
        BY DEF Held
      <3>2. CASE g = f
        BY <2>2, <2>4, <2>10, <3>2
      <3>3. CASE g \in DOMAIN s.table
        BY <2>4, <2>10, <3>3 DEF Good, Held
      <3>4. QED
        BY <2>4, <3>2, <3>3
    <2>12. Owners(t)
      <3>1. SUFFICES ASSUME NEW j \in t.used, t.inodes[j] # NotOpen
                     PROVE  \E g \in DOMAIN t.table : t.table[g].inode = j
        BY DEF Owners
      <3>2. CASE j = i
        BY <2>4, <3>2
      <3>3. CASE j # i
        <4>1. j \in s.used /\ j \in Sector
          BY <2>1, <2>4, StateFields DEF Frame
        <4>2. s.inodes[j] # NotOpen
          BY <2>7, <3>1, <3>3, <4>1
        <4>3. PICK g \in DOMAIN s.table : s.table[g].inode = j
          BY <4>1, <4>2 DEF Good, Owners
        <4>4. QED
          BY <2>4, <4>3
      <3>4. QED
        BY <3>2, <3>3
    <2>13. Good(t)
      BY <2>4, <2>9, <2>11, <2>12, MemoryKeeps
    <2>14. x # NotOpen
      BY NotOpenIsNone DEF Record
    <2>15. Clean(s) => Clean(t)
      <3>1. SUFFICES ASSUME Clean(s) PROVE Clean(t)
        OBVIOUS
      <3>2. t.used = s.used
        BY <2>4 DEF Frame
      <3>3. \A g \in Files(t) : InodeOf(t, g) \in t.used
        BY <2>10, <3>1, <3>2 DEF Clean
      <3>4. ASSUME NEW j \in Sector, t.inodes[j] # NotOpen PROVE j \in t.used
        <4>1. CASE j = i
          BY <2>2, <3>1, <3>2, <4>1 DEF Clean
        <4>2. CASE j # i
          BY <2>7, <3>1, <3>2, <3>4, <4>2 DEF Clean
        <4>3. QED
          BY <4>1, <4>2
      <3>5. QED
        BY <3>3, <3>4 DEF Clean
    <2>16. Alive(s, F) => Alive(t, F)
      <3>1. SUFFICES ASSUME Alive(s, F), NEW g \in DOMAIN t.table, g \notin F
                     PROVE  t.inodes[InodeOf(t, g)] # NotOpen
        BY DEF Alive
      <3>2. CASE InodeOf(t, g) = i
        BY <2>7, <2>14, <3>2
      <3>3. CASE InodeOf(t, g) # i
        <4>1. g \in DOMAIN s.table
          BY <2>2, <2>4, <2>10, <3>3
        <4>2. g \in Files(s)
          BY <4>1 DEF Good, Held
        <4>3. InodeOf(s, g) \in Sector
          BY <4>2, MemFacts
        <4>4. QED
          BY <2>7, <2>10, <3>1, <3>3, <4>1, <4>3 DEF Alive
      <3>4. QED
        BY <3>2, <3>3
    <2>17. Mem(t, f) = Mem(s, f)
      BY <2>2, <2>5, <2>7, <2>10, <2>14 DEF Mem, InMemory
    <2>18. t.table[f].pos = 0
      BY <2>4
    <2>19. QED
      BY <1>2, <2>4, <2>13, <2>15, <2>16, <2>17, <2>18
  <1>3. QED
    BY <1>1, <1>2

(* Opening one file leaves the inode of every file as it was.              *)
LEMMA OpenedMem ==
  ASSUME NEW s, Good(s), NEW f \in Files(s), NEW g \in Files(s), NEW t, t = Opened(s, f)
  PROVE  Mem(t, g) = Mem(s, g)
  <1>1. CASE f \in DOMAIN s.table
    BY <1>1 DEF Opened
  <1>2. CASE f \notin DOMAIN s.table
    <2>1. s \in State
      BY DEF Good
    <2>2. PICK i \in Sector : i = InodeOf(s, f)
      BY MemFacts
    <2>3. PICK x \in InodeRec : x = InMemory(s, i) /\ x \in Record /\ x # NotOpen
      BY <2>2, MemFacts, NotOpenIsNone DEF Mem, Record
    <2>4. Frame(s, t) /\ t.inodes = [s.inodes EXCEPT ![i] = x]
      <3>1. f \in FileName
        BY <2>1, SlotFacts
      <3>2. InMemory(s, i) \in Record
        BY <2>3
      <3>3. /\ t \in State /\ Frame(s, t)
            /\ t.inodes = [s.inodes EXCEPT ![i] = InMemory(s, i)]
            /\ DOMAIN t.table = DOMAIN s.table \cup {f}
            /\ t.table[f] = [inode |-> i, pos |-> 0]
            /\ \A h \in DOMAIN s.table : t.table[h] = s.table[h]
        BY <1>2, <2>1, <2>2, <3>1, <3>2, OpenedIs
      <3>4. QED
        BY <2>3, <3>3
    <2>5. s.inodes \in [Sector -> Record \cup {NotOpen}]
      BY <2>1, StateFields
    <2>6. t.inodes[i] = x /\ \A j \in Sector : j # i => t.inodes[j] = s.inodes[j]
      BY <2>4, <2>5
    <2>7. InodeOf(t, g) = InodeOf(s, g) /\ InodeOf(s, g) \in Sector
      BY <2>4, FrameFiles, MemFacts
    <2>8. PICK j \in Sector : j = InodeOf(s, g)
      BY <2>7
    <2>9. InMemory(t, j) = InMemory(s, j)
      <3>1. CASE j = i
        BY <2>3, <2>6, <3>1 DEF InMemory
      <3>2. CASE j # i
        BY <2>4, <2>6, <3>2 DEF InMemory, Frame
      <3>3. QED
        BY <3>1, <3>2
    <2>10. QED
      BY <2>7, <2>8, <2>9 DEF Mem
  <1>3. QED
    BY <1>1, <1>2

(* Quotient and remainder by the size of a sector.                         *)
LEMMA Division ==
  ASSUME NEW P \in Nat \ {0}, NEW n \in Nat
  PROVE  n \div P \in Nat /\ n % P \in 0 .. P - 1 /\ n = P * (n \div P) + (n % P)
  OBVIOUS

(* bytes_to_sectors answers a natural number.                              *)
LEMMA SectorsForType ==
  ASSUME NEW n \in Nat
  PROVE  SectorsFor(n) \in Nat
  <1>1. PICK P \in Nat \ {0} : P = SectorSize
    BY FilesAssumption
  <1>2. n + P - 1 \in Nat
    OBVIOUS
  <1>3. QED
    BY <1>1, <1>2, Division DEF SectorsFor

(* The sector of a position within n bytes is one of the first sectors.    *)
LEMMA SectorWithin ==
  ASSUME NEW n \in Nat, NEW q \in Nat, q < n
  PROVE  (q \div SectorSize) + 1 \in 1 .. SectorsFor(n) /\ (q % SectorSize) + 1 \in 1 .. SectorSize
  <1>1. PICK P \in Nat \ {0} : P = SectorSize
    BY FilesAssumption
  <1>2. PICK a \in Nat, r \in 0 .. P - 1 : a = q \div P /\ r = q % P /\ q = P * a + r
    BY Division
  <1>3. PICK w \in Nat : w = n + P - 1
    <2>1. n + P - 1 \in Nat
      OBVIOUS
    <2>2. QED
      BY <2>1
  <1>4. PICK b \in Nat, z \in 0 .. P - 1 : b = w \div P /\ w = P * b + z
    BY Division
  <1>5. a + 1 <= b
    <2>1. SUFFICES ASSUME b <= a PROVE FALSE
      OBVIOUS
    <2>2. P * b <= P * a
      BY <2>1
    <2>3. QED
      BY <1>2, <1>3, <1>4, <2>2
  <1>6. SectorsFor(n) = b
    BY <1>1, <1>3, <1>4 DEF SectorsFor
  <1>7. a + 1 \in 1 .. b /\ r + 1 \in 1 .. P
    BY <1>5
  <1>8. QED
    BY <1>1, <1>2, <1>6, <1>7

\* What a command keeps that works on the open file f.
Serves(s, f, t) ==
  /\ Good(t) /\ (Clean(s) => Clean(t)) /\ t.dir = s.dir
  /\ Files(t) = Files(s)
  /\ \A g : InodeOf(t, g) = InodeOf(s, g)
  /\ DOMAIN t.table = DOMAIN s.table \cup {f}
  /\ \A g \in DOMAIN s.table : g # f => t.table[g] = s.table[g]
  /\ \A F : f \notin F /\ Alive(s, F) => Alive(t, F)

(* A seek on an open file keeps the invariant.                             *)
LEMMA MovedKeeps ==
  ASSUME NEW s, Good(s), NEW f \in DOMAIN s.table, NEW p \in Int, NEW t, t = Moved(s, f, p)
  PROVE  Serves(s, f, t) /\ Frame(s, t) /\ t.inodes = s.inodes /\ t.table[f].pos = p
  <1>1. s \in State
    BY DEF Good
  <1>2. /\ t \in State /\ Frame(s, t) /\ t.inodes = s.inodes
        /\ DOMAIN t.table = DOMAIN s.table
        /\ t.table[f] = [inode |-> s.table[f].inode, pos |-> p]
        /\ \A g \in DOMAIN s.table : g # f => t.table[g] = s.table[g]
    BY <1>1, MovedIs
  <1>3. \A g \in DOMAIN s.table : t.table[g].inode = s.table[g].inode
    BY <1>2
  <1>4. /\ Files(t) = Files(s) /\ \A g : InodeOf(t, g) = InodeOf(s, g)
    BY <1>2, FrameFiles
  <1>5. Held(t)
    BY <1>2, <1>3, <1>4 DEF Good, Held
  <1>6. t.used = s.used /\ t.dir = s.dir
    BY <1>2 DEF Frame
  <1>7. Owners(t)
    BY <1>2, <1>3, <1>6 DEF Good, Owners
  <1>8. Good(t)
    BY <1>2, <1>5, <1>7, MemoryKeeps
  <1>9. Clean(s) => Clean(t)
    BY <1>2, <1>4, <1>6 DEF Clean
  <1>10. \A F : Alive(s, F) => Alive(t, F)
    BY <1>2, <1>4 DEF Alive
  <1>11. DOMAIN t.table = DOMAIN s.table \cup {f}
    BY <1>2
  <1>12. Serves(s, f, t)
    BY <1>2, <1>4, <1>6, <1>8, <1>9, <1>10, <1>11 DEF Serves
  <1>13. QED
    BY <1>2, <1>12

(* Closing a handle frees its inode.                                       *)
LEMMA ClosedKeeps ==
  ASSUME NEW s, Good(s), NEW f \in DOMAIN s.table, NEW F, NEW t, t = Closed(s, f)
  PROVE  /\ Good(t) /\ Frame(s, t)
         /\ DOMAIN t.table = DOMAIN s.table \ {f}
         /\ \A g \in DOMAIN t.table : t.table[g] = s.table[g]
         /\ t.inodes[InodeOf(s, f)] = NotOpen
         /\ Clean(s) => Clean(t)
         /\ Alive(s, F) => Alive(t, F)
  <1>1. s \in State
    BY DEF Good
  <1>2. f \in Files(s) /\ s.table[f].inode = InodeOf(s, f)
    BY DEF Good, Held
  <1>3. PICK i \in Sector : i = InodeOf(s, f)
    BY <1>2, MemFacts
  <1>4. /\ t \in State /\ Frame(s, t)
        /\ t.inodes = [s.inodes EXCEPT ![i] = NotOpen]
        /\ DOMAIN t.table = DOMAIN s.table \ {f}
        /\ \A g \in DOMAIN t.table : t.table[g] = s.table[g]
    BY <1>1, <1>2, <1>3, ClosedIs
  <1>5. s.inodes \in [Sector -> Record \cup {NotOpen}]
    BY <1>1, StateFields
  <1>6. t.inodes[i] = NotOpen /\ \A j \in Sector : j # i => t.inodes[j] = s.inodes[j]
    BY <1>4, <1>5
  <1>7. \A j \in Sector : t.inodes[j] \in {s.inodes[j], NotOpen, s.disk[j]}
    BY <1>6
  <1>8. /\ Files(t) = Files(s) /\ \A g : InodeOf(t, g) = InodeOf(s, g)
    BY <1>4, FrameFiles
  <1>9. t.used = s.used
    BY <1>4 DEF Frame
  <1>10. Held(t)
    BY <1>4, <1>8 DEF Good, Held
  <1>11. Owners(t)
    <2>1. SUFFICES ASSUME NEW j \in t.used, t.inodes[j] # NotOpen
                   PROVE  \E g \in DOMAIN t.table : t.table[g].inode = j
      BY DEF Owners
    <2>2. j \in s.used /\ j \in Sector
      BY <1>1, <1>9, StateFields
    <2>3. j # i /\ s.inodes[j] # NotOpen
      BY <1>6, <2>1, <2>2
    <2>4. PICK g \in DOMAIN s.table : s.table[g].inode = j
      BY <2>2, <2>3 DEF Good, Owners
    <2>5. g # f
      BY <1>2, <1>3, <2>3, <2>4
    <2>6. QED
      BY <1>4, <2>4, <2>5
  <1>12. Good(t)
    BY <1>4, <1>7, <1>10, <1>11, MemoryKeeps
  <1>13. Clean(s) => Clean(t)
    <2>1. SUFFICES ASSUME Clean(s) PROVE Clean(t)
      OBVIOUS
    <2>2. \A g \in Files(t) : InodeOf(t, g) \in t.used
      BY <1>8, <1>9, <2>1 DEF Clean
    <2>3. \A j \in Sector : t.inodes[j] # NotOpen => j \in t.used
      BY <1>6, <1>9, <2>1 DEF Clean
    <2>4. QED
      BY <2>2, <2>3 DEF Clean
  <1>14. Alive(s, F) => Alive(t, F)
    <2>1. SUFFICES ASSUME Alive(s, F), NEW g \in DOMAIN t.table, g \notin F
                   PROVE  t.inodes[InodeOf(t, g)] # NotOpen
      BY DEF Alive
    <2>2. g \in DOMAIN s.table /\ g # f /\ g \in Files(s)
      BY <1>4 DEF Good, Held
    <2>3. InodeOf(s, g) # i /\ InodeOf(s, g) \in Sector
      BY <1>2, <1>3, <2>2, MemFacts DEF Good, Named
    <2>4. QED
      BY <1>6, <1>8, <2>1, <2>2, <2>3 DEF Alive
  <1>15. QED
    BY <1>3, <1>4, <1>6, <1>12, <1>13, <1>14

(* remove_from_file_table, whether or not the file is open.                *)
LEMMA ClosedAnyway ==
  ASSUME NEW s, Good(s), NEW f \in Files(s), NEW F, NEW t, t = Closed(s, f)
  PROVE  /\ Good(t) /\ Frame(s, t)
         /\ DOMAIN t.table = DOMAIN s.table \ {f}
         /\ \A g \in DOMAIN t.table : t.table[g] = s.table[g]
         /\ Clean(s) => Clean(t)
         /\ Alive(s, F) => Alive(t, F)
  <1>1. CASE f \in DOMAIN s.table
    <2>1. /\ Good(t) /\ Frame(s, t)
          /\ DOMAIN t.table = DOMAIN s.table \ {f}
          /\ \A g \in DOMAIN t.table : t.table[g] = s.table[g]
          /\ Clean(s) => Clean(t)
          /\ Alive(s, F) => Alive(t, F)
      BY <1>1, ClosedKeeps
    <2>2. QED
      BY <2>1
  <1>2. CASE f \notin DOMAIN s.table
    <2>1. t = s
      BY <1>2 DEF Closed
    <2>2. QED
      BY <1>2, <2>1 DEF Frame
  <1>3. QED
    BY <1>1, <1>2

(* fsutil_rm releases sectors that no other file has.                      *)
Released(c, f, i, R, t) ==
  /\ t \in State /\ t.used = c.used \ R /\ t.disk = c.disk
  /\ t.dir = Erased(c.dir, f) /\ t.table = c.table
  /\ t.inodes[i] = NotOpen
  /\ \A j \in Sector : j # i => t.inodes[j] = c.inodes[j]

(* What fsutil_rm releases, once the handle is closed.                     *)
LEMMA GoneIs ==
  ASSUME NEW s, NEW f, NEW c \in State, c = Closed(s, f),
         NEW i \in Sector, i = InodeOf(s, f), NEW x, x = InMemory(c, i),
         NEW R, R = {i} \cup {x.blocks[k] : k \in 1 .. SectorsFor(x.len)},
         Erased(c.dir, f) \in Seq({NoEntry} \cup DirEntry), NEW t, t = Gone(s, f)
  PROVE  Released(c, f, i, R, t)
  <1> DEFINE ino == [c.inodes EXCEPT ![i] = NotOpen]
  <1>1. ino \in [Sector -> Record \cup {NotOpen}]
    BY StateFields
  <1>2. ino[i] = NotOpen /\ \A j \in Sector : j # i => ino[j] = c.inodes[j]
    BY StateFields
  <1>0. t = [c EXCEPT
               !.used = @ \ ({i} \cup {x.blocks[k] : k \in 1 .. SectorsFor(x.len)}),
               !.dir = Erased(@, f), !.inodes[i] = NotOpen]
    BY Zenon DEF Gone
  <1>3. t = [c EXCEPT !.used = c.used \ R, !.dir = Erased(c.dir, f), !.inodes = ino]
    BY <1>0 DEF State
  <1> HIDE DEF ino
  <1>4. c.used \ R \in SUBSET Sector
    BY StateFields
  <1>5. PICK u \in SUBSET Sector : u = c.used \ R
    BY <1>4
  <1>6. PICK d \in Seq({NoEntry} \cup DirEntry) : d = Erased(c.dir, f)
    OBVIOUS
  <1>7. t = [c EXCEPT !.used = u, !.dir = d, !.inodes = ino]
    BY <1>3, <1>5, <1>6
  <1>8. /\ t \in State /\ t.used = u /\ t.disk = c.disk
        /\ t.dir = d /\ t.table = c.table /\ t.inodes = ino
    BY <1>1, <1>7 DEF State
  <1>9. QED
    BY <1>2, <1>5, <1>6, <1>8 DEF Released

\* The sectors rm releases for f.
Region(s, f) ==
  LET x == s.disk[InodeOf(s, f)]
  IN {InodeOf(s, f)} \cup {x.blocks[k] : k \in 1 .. SectorsFor(x.len)}

(* They are the same for the inode in memory.                              *)
LEMMA RegionIs ==
  ASSUME NEW s, Good(s), NEW f \in Files(s), NEW x, x = Mem(s, f)
  PROVE  Region(s, f) = {InodeOf(s, f)} \cup {x.blocks[k] : k \in 1 .. SectorsFor(x.len)}
  <1>1. PICK y \in InodeRec : y = s.disk[InodeOf(s, f)] /\ Shrinks(y, x)
    BY MemFacts
  <1>2. SectorsFor(y.len) \in Nat /\ Len(y.blocks) \in Nat /\ SectorsFor(y.len) <= Len(y.blocks)
    BY InodeFields, SectorsForType
  <1>3. x.len = y.len /\ \A k \in 1 .. SectorsFor(y.len) : x.blocks[k] = y.blocks[k]
    BY <1>1, <1>2 DEF Shrinks
  <1>4. QED
    BY <1>1, <1>3 DEF Region

(* Removing a file keeps the invariant, and touches no other file.         *)
LEMMA GoneKeeps ==
  ASSUME NEW s, Good(s), Clean(s), NEW f \in Files(s), NEW F, NEW t, t = Gone(s, f)
  PROVE  /\ Good(t) /\ Clean(t)
         /\ Files(t) = Files(s) \ {f}
         /\ \A g \in Files(t) : InodeOf(t, g) = InodeOf(s, g)
         /\ DOMAIN t.table = DOMAIN s.table \ {f}
         /\ \A g \in DOMAIN t.table : t.table[g] = s.table[g]
         /\ Alive(s, F) => Alive(t, F)
         /\ t.disk = s.disk /\ t.used = s.used \ Region(s, f)
  <1>1. PICK c : c = Closed(s, f)
    OBVIOUS
  <1>2. /\ Good(c) /\ Frame(s, c) /\ Clean(c)
        /\ DOMAIN c.table = DOMAIN s.table \ {f}
        /\ \A g \in DOMAIN c.table : c.table[g] = s.table[g]
        /\ Alive(s, F) => Alive(c, F)
    BY <1>1, ClosedAnyway
  <1>3. /\ Files(c) = Files(s) /\ \A g : InodeOf(c, g) = InodeOf(s, g)
    BY <1>2, FrameFiles
  <1>4. c \in State
    BY <1>2 DEF Good
  <1>5. PICK i \in Sector \ System : i = InodeOf(c, f) /\ i = InodeOf(s, f)
    BY <1>2, <1>3, MemFacts
  <1>6. PICK x \in InodeRec : x = Mem(c, f) /\ x = InMemory(c, i)
    BY <1>2, <1>3, <1>5, MemFacts DEF Mem
  <1>7. PICK R : R = {i} \cup {x.blocks[k] : k \in 1 .. SectorsFor(x.len)}
    OBVIOUS
  <1>8. R \subseteq {i} \cup Own(c, f)
    <2>1. SectorsFor(x.len) \in Nat /\ Len(x.blocks) \in Nat /\ SectorsFor(x.len) <= Len(x.blocks)
      BY InodeFields, SectorsForType
    <2>2. \A k \in 1 .. SectorsFor(x.len) : k \in 1 .. Len(x.blocks)
      BY <2>1
    <2>3. QED
      BY <1>6, <1>7, <2>2 DEF Own, BlocksOf
  <1>10. PICK d \in Seq({NoEntry} \cup DirEntry) : d = c.dir
    BY <1>4, StateFields
  <1>11. Distinct(c.dir)
    BY <1>2 DEF Good, Named
  <1>12. Erased(c.dir, f) \in Seq({NoEntry} \cup DirEntry)
    BY <1>10, ErasedSlots
  <1>13. /\ t \in State /\ t.used = c.used \ R /\ t.disk = c.disk
         /\ t.dir = Erased(c.dir, f) /\ t.table = c.table
         /\ t.inodes[i] = NotOpen
         /\ \A j \in Sector : j # i => t.inodes[j] = c.inodes[j]
    <2>1. Released(c, f, i, R, t)
      BY <1>1, <1>4, <1>5, <1>6, <1>7, <1>12, GoneIs, Zenon
    <2>2. QED
      BY <2>1 DEF Released
  <1>14. /\ Distinct(t.dir)
         /\ Files(t) = Files(c) \ {f}
         /\ \A g \in Files(t) : InodeOf(t, g) = InodeOf(c, g)
    <2>1. t.dir = Erased(c.dir, f)
      BY <1>13
    <2>2. Distinct(t.dir)
      BY <1>4, <1>11, <2>1, ErasedIs, Zenon
    <2>3. Files(t) = Files(c) \ {f}
      BY <1>4, <1>11, <2>1, ErasedIs, Zenon
    <2>4. SameInodes(c, t)
      BY <1>4, <1>11, <2>1, ErasedInodes, Zenon
    <2>5. QED
      BY <2>2, <2>3, <2>4, Zenon DEF SameInodes
  <1>15. \A g \in Files(c) : g \in Kept(c) /\ InodeOf(c, g) \in c.used
    BY <1>2 DEF Clean, Kept
  <1>16. f \in Kept(c)
    BY <1>3, <1>15
  <1>17. Own(c, f) \subseteq c.used \ System
    BY <1>2, <1>16 DEF Good, Apart
  <1>18. ASSUME NEW g \in Files(t)
         PROVE  /\ g \in Files(c) /\ g # f /\ InodeOf(t, g) = InodeOf(c, g)
                /\ InodeOf(c, g) \in Sector /\ InodeOf(c, g) # i
                /\ InodeOf(c, g) \in t.used
                /\ Mem(t, g) = Mem(c, g)
                /\ Own(c, g) \subseteq t.used
    <2>1. g \in Files(c) /\ g # f /\ InodeOf(t, g) = InodeOf(c, g)
      BY <1>14
    <2>2. InodeOf(c, g) \in Sector /\ InodeOf(c, g) # i
      BY <1>2, <1>3, <1>5, <2>1, MemFacts DEF Good, Named
    <2>3. /\ InodeOf(c, g) \notin Own(c, f) /\ InodeOf(c, f) \notin Own(c, g)
          /\ Own(c, g) \cap Own(c, f) = {} /\ Own(c, g) \subseteq c.used
      BY <1>2, <1>15, <1>16, <2>1 DEF Good, Apart
    <2>4. InodeOf(c, g) \in t.used
      BY <1>8, <1>13, <1>15, <2>1, <2>2, <2>3
    <2>5. Mem(t, g) = Mem(c, g)
      BY <1>13, <2>1, <2>2 DEF Mem, InMemory
    <2>6. Own(c, g) \subseteq t.used
      BY <1>5, <1>8, <1>13, <2>3
    <2>7. QED
      BY <2>1, <2>2, <2>4, <2>5, <2>6
  <1>19. Named(t)
    BY <1>2, <1>14, <1>18 DEF Good, Named
  <1>20. Kinds(t)
    <2>1. SUFFICES ASSUME NEW g \in Files(t)
                   PROVE  /\ t.disk[InodeOf(t, g)] \in InodeRec
                          /\ t.inodes[InodeOf(t, g)] # NotOpen =>
                               /\ t.inodes[InodeOf(t, g)] \in InodeRec
                               /\ Shrinks(t.disk[InodeOf(t, g)], t.inodes[InodeOf(t, g)])
      BY DEF Kinds
    <2>2. /\ c.disk[InodeOf(c, g)] \in InodeRec
          /\ c.inodes[InodeOf(c, g)] # NotOpen =>
               /\ c.inodes[InodeOf(c, g)] \in InodeRec
               /\ Shrinks(c.disk[InodeOf(c, g)], c.inodes[InodeOf(c, g)])
      BY <1>2, <1>18 DEF Good, Kinds
    <2>3. QED
      BY <1>13, <1>18, <2>2
  <1>21. Held(t)
    <2>1. SUFFICES ASSUME NEW g \in DOMAIN t.table
                   PROVE  g \in Files(t) /\ t.table[g].inode = InodeOf(t, g)
      BY DEF Held
    <2>2. g \in DOMAIN c.table /\ g # f
      BY <1>2, <1>13
    <2>3. g \in Files(c) /\ c.table[g].inode = InodeOf(c, g)
      BY <1>2, <2>2 DEF Good, Held
    <2>4. QED
      BY <1>13, <1>14, <2>2, <2>3
  <1>22. ASSUME NEW j \in Sector, t.inodes[j] # NotOpen
         PROVE  j \in t.used /\ \E g \in DOMAIN t.table : t.table[g].inode = j
    <2>1. j # i /\ c.inodes[j] # NotOpen
      BY <1>13, <1>22
    <2>2. j \in c.used
      BY <1>2, <2>1 DEF Clean
    <2>3. PICK g \in DOMAIN c.table : c.table[g].inode = j
      BY <1>2, <2>1, <2>2 DEF Good, Owners
    <2>4. g \in DOMAIN t.table /\ t.table[g].inode = j
      BY <1>13, <2>3
    <2>5. g \in Files(t) /\ j = InodeOf(t, g)
      BY <1>21, <2>4 DEF Held
    <2>6. QED
      BY <1>18, <2>4, <2>5
  <1>23. Spare(t)
    BY <1>22 DEF Spare
  <1>24. Owners(t)
    <2>1. t.used \subseteq Sector
      BY <1>13, StateFields
    <2>2. QED
      BY <1>22, <2>1 DEF Owners
  <1>25. Clean(t)
    BY <1>18, <1>22 DEF Clean
  <1>26. Strays(t)
    BY <1>18 DEF Strays, Kept
  <1>27. Apart(t) /\ Zeroed(t)
    <2>1. \A g \in Kept(t) : g \in Files(t)
      BY DEF Kept
    <2>2. Kept(t) \subseteq Kept(c)
      BY <1>15, <1>18, <2>1
    <2>3. ASSUME NEW g \in Kept(t)
          PROVE  /\ InodeOf(t, g) = InodeOf(c, g)
                 /\ Mem(t, g) \in InodeRec /\ Shrinks(Mem(t, g), Mem(c, g))
                 /\ \A b \in Own(c, g) : b \in t.used /\ t.disk[b] = c.disk[b]
      <3>1. Mem(c, g) \in InodeRec /\ Shrinks(Mem(c, g), Mem(c, g))
        BY <1>2, <1>18, <2>1, MemFacts, ShrinksSelf
      <3>2. QED
        BY <1>13, <1>18, <2>1, <3>1
    <2>4. QED
      BY <1>2, <2>2, <2>3, LayoutKept
  <1>28. System \subseteq t.used
    BY <1>2, <1>5, <1>8, <1>13, <1>17 DEF Good
  <1>29. Good(t)
    BY <1>13, <1>19, <1>20, <1>21, <1>23, <1>24, <1>26, <1>27, <1>28 DEF Good
  <1>30. Alive(s, F) => Alive(t, F)
    <2>1. SUFFICES ASSUME Alive(s, F), NEW g \in DOMAIN t.table, g \notin F
                   PROVE  t.inodes[InodeOf(t, g)] # NotOpen
      BY DEF Alive
    <2>2. g \in DOMAIN c.table /\ g \in Files(t)
      BY <1>13, <1>21 DEF Held
    <2>3. c.inodes[InodeOf(c, g)] # NotOpen
      BY <1>2, <2>1, <2>2 DEF Alive
    <2>4. QED
      BY <1>13, <1>18, <2>2, <2>3
  <1>32. t.disk = s.disk /\ t.used = s.used \ Region(s, f)
    <2>1. Region(c, f) = R
      <3>1. Good(c) /\ f \in Files(c) /\ x = Mem(c, f) /\ i = InodeOf(c, f)
        BY <1>2, <1>3, <1>5, <1>6
      <3>2. Region(c, f) = {InodeOf(c, f)} \cup {x.blocks[k] : k \in 1 .. SectorsFor(x.len)}
        BY <3>1, RegionIs
      <3>3. QED
        BY <1>7, <3>1, <3>2
    <2>2. Region(c, f) = Region(s, f) /\ c.used = s.used /\ c.disk = s.disk
      BY <1>2, <1>3 DEF Region, Frame
    <2>3. QED
      BY <1>13, <2>1, <2>2
  <1>31. QED
    BY <1>2, <1>3, <1>13, <1>14, <1>25, <1>29, <1>30, <1>32

-----------------------------------------------------------------------------
(* inode_reserve takes free sectors only, and fills them with zeros.       *)
Blank == Data(Zeros(SectorSize))

(* A sector of zeros is raw data.                                          *)
LEMMA BlankFacts ==
  /\ Blank \in DataRecord /\ Blank \in Record
  /\ \A h \in 1 .. SectorSize : Raw(Blank)[h] = Nul
  <1>1. PICK P \in Nat : P = SectorSize
    BY FilesAssumption
  <1>2. PICK z : z = Zeros(P)
    OBVIOUS
  <1>3. z \in [1 .. P -> Byte] /\ \A h \in 1 .. P : z[h] = Nul
    BY <1>2 DEF Zeros, Byte
  <1>4. Blank = [kind |-> "data", bytes |-> z]
    BY <1>1, <1>2 DEF Blank, Data
  <1>5. Blank \in DataRecord /\ Blank.kind = "data" /\ Blank.bytes = z
    BY <1>1, <1>3, <1>4 DEF DataRecord
  <1>6. Raw(Blank) = z
    BY <1>5 DEF Raw
  <1>7. QED
    BY <1>1, <1>3, <1>5, <1>6 DEF Record

\* t is s with the sectors `new` allocated and blank.
Reserved(s, new, t) ==
  /\ t \in State /\ t.used = s.used \cup new
  /\ t.dir = s.dir /\ t.inodes = s.inodes /\ t.table = s.table
  /\ \A j \in new : t.disk[j] = Blank
  /\ \A j \in Sector \ new : t.disk[j] = s.disk[j]

(* What inode_reserve leaves is a state.                                   *)
LEMMA ReservedState ==
  ASSUME NEW s \in State, NEW new \in SUBSET Sector,
         NEW t, t = [s EXCEPT !.used = s.used \cup new, !.disk = Cleared(s.disk, new)]
  PROVE  Reserved(s, new, t)
  <1>1. PICK d : d = Cleared(s.disk, new)
    OBVIOUS
  <1>2. \A j \in Sector : s.disk[j] \in Record
    BY StateFields
  <1>3. /\ d = [j \in Sector |-> IF j \in new THEN Blank ELSE s.disk[j]]
    BY <1>1 DEF Cleared, Blank
  <1>4. d \in [Sector -> Record]
    BY <1>2, <1>3, BlankFacts
  <1>5. PICK u \in SUBSET Sector : u = s.used \cup new
    BY StateFields
  <1>6. t = [s EXCEPT !.used = u, !.disk = d]
    BY <1>1, <1>5
  <1>7. /\ t \in State /\ t.used = u /\ t.disk = d
        /\ t.dir = s.dir /\ t.inodes = s.inodes /\ t.table = s.table
    BY <1>4, <1>6 DEF State
  <1>8. QED
    BY <1>3, <1>5, <1>7 DEF Reserved

\* `long` is `short` with different sectors of `new` behind it.
Extends(short, long, new) ==
  /\ long \in Seq(Sector) /\ Len(short) <= Len(long)
  /\ \A k \in 1 .. Len(short) : long[k] = short[k]
  /\ \A k \in Len(short) + 1 .. Len(long) : long[k] \in new
  /\ \A j, k \in Len(short) + 1 .. Len(long) : long[j] = long[k] => j = k

(* The blocks of an inode with the new sectors, in order, after them.      *)
LEMMA Extended ==
  ASSUME NEW short \in Seq(Sector), NEW new \in SUBSET Sector
  PROVE  /\ Extends(short, short \o Ascending(new), new)
         /\ Len(short \o Ascending(new)) = Len(short) + Cardinality(new)
  <1>1. PICK q : q = Ascending(new)
    OBVIOUS
  <1>2. PICK c \in Nat : c = Cardinality(new)
    BY SectorsFinite
  <1>3. q \in Seq(new) /\ Len(q) = c /\ Injective(q)
    BY <1>1, <1>2, AscendingFacts
  <1>4. q \in Seq(Sector) /\ \A k \in 1 .. c : q[k] \in new
    BY <1>3
  <1>5. PICK m \in Nat : m = Len(short)
    OBVIOUS
  <1>6. PICK long : long = short \o q
    OBVIOUS
  <1>7. /\ long \in Seq(Sector) /\ Len(long) = m + c
        /\ \A k \in 1 .. m : long[k] = short[k]
        /\ \A k \in m + 1 .. m + c : long[k] = q[k - m]
    BY <1>3, <1>4, <1>5, <1>6
  <1>8. \A k \in m + 1 .. m + c : k - m \in 1 .. c
    BY <1>2, <1>5
  <1>9. \A k \in m + 1 .. m + c : long[k] \in new
    BY <1>4, <1>7, <1>8
  <1>10. ASSUME NEW j \in m + 1 .. m + c, NEW k \in m + 1 .. m + c, long[j] = long[k]
         PROVE j = k
    <2>1. q[j - m] = q[k - m]
      BY <1>7, <1>10
    <2>2. j - m = k - m
      BY <1>3, <1>8, <2>1 DEF Injective
    <2>3. QED
      BY <1>5, <2>2
  <1>11. m <= m + c
    OBVIOUS
  <1>12. QED
    BY <1>1, <1>2, <1>5, <1>6, <1>7, <1>9, <1>10, <1>11 DEF Extends

\* What inode_reserve returns when it takes the sectors `new`.
Takes(s, blocks, n, got, new) ==
  /\ Reserved(s, new, got.state) /\ Extends(blocks, got.blocks, new)
  /\ got.enough => SectorsFor(n) <= Len(got.blocks)
  /\ SectorsFor(n) <= Len(blocks) => got.enough /\ new = {}

(* inode_reserve marks what it takes as used and touches nothing else.     *)
LEMMA ReserveFacts ==
  ASSUME NEW s \in State, NEW blocks \in Seq(Sector), NEW n \in Nat,
         NEW got, got = Reserve(s, blocks, n)
  PROVE  \E new \in SUBSET (Sector \ s.used) : Takes(s, blocks, n, got, new)
  <1>1. PICK new : new = LowestOf(Free(s), SectorsFor(n) - Len(blocks))
    OBVIOUS
  <1>2. new \in SUBSET (Sector \ s.used)
    BY <1>1, LowestAmong DEF Free
  <1>3. PICK st : st = [s EXCEPT !.used = s.used \cup new, !.disk = Cleared(s.disk, new)]
    OBVIOUS
  <1>4. got = [state |-> st, blocks |-> blocks \o Ascending(new),
               enough |-> SectorsFor(n) - Len(blocks) <= Cardinality(new)]
    BY <1>1, <1>3 DEF Reserve
  <1>9. got.state = st /\ (got.enough <=> SectorsFor(n) - Len(blocks) <= Cardinality(new))
    <2>1. PICK q : q = blocks \o Ascending(new)
      OBVIOUS
    <2>2. PICK b : b = (SectorsFor(n) - Len(blocks) <= Cardinality(new))
      OBVIOUS
    <2>3. got = [state |-> st, blocks |-> q, enough |-> b]
      BY <1>4, <2>1, <2>2, Zenon
    <2>4. got.state = st /\ got.enough = b
      BY <2>3
    <2>5. QED
      BY <2>2, <2>4, Zenon
  <1>5. Reserved(s, new, got.state)
    BY <1>2, <1>3, <1>9, ReservedState
  <1>6. /\ Extends(blocks, got.blocks, new)
        /\ Len(got.blocks) = Len(blocks) + Cardinality(new)
    BY <1>2, <1>4, Extended
  <1>7. got.enough => SectorsFor(n) <= Len(got.blocks)
    <2>1. PICK m \in Nat : m = Len(blocks)
      OBVIOUS
    <2>2. PICK c \in Nat : c = Cardinality(new)
      BY <1>2, SectorsFinite
    <2>3. PICK w \in Nat : w = SectorsFor(n)
      BY SectorsForType
    <2>4. got.enough => w - m <= c
      BY <1>9, <2>1, <2>2, <2>3
    <2>5. w - m <= c => w <= m + c
      OBVIOUS
    <2>6. QED
      BY <1>6, <2>1, <2>2, <2>3, <2>4, <2>5
  <1>10. ASSUME SectorsFor(n) <= Len(blocks) PROVE got.enough /\ new = {}
    <2>1. PICK k \in Int : k = SectorsFor(n) - Len(blocks) /\ k <= 0
      <3>1. SectorsFor(n) \in Nat /\ Len(blocks) \in Nat
        BY SectorsForType
      <3>2. QED
        BY <1>10, <3>1
    <2>2. ASSUME NEW t \in new PROVE FALSE
      <3>1. Cardinality({u \in Free(s) : u < t}) < k
        BY <1>1, <2>1 DEF LowestOf
      <3>2. Cardinality({u \in Free(s) : u < t}) \in Nat
        BY SectorsFinite DEF Free
      <3>3. QED
        BY <2>1, <3>1, <3>2
    <2>3. Cardinality(new) \in Nat
      BY <1>2, SectorsFinite
    <2>4. got.enough
      BY <1>9, <2>1, <2>3
    <2>5. QED
      BY <2>2, <2>4
  <1>8. QED
    BY <1>2, <1>5, <1>6, <1>7, <1>10 DEF Takes

-----------------------------------------------------------------------------
(* filesys_create touches free sectors only.                               *)
Unmoved(s, t) ==
  /\ t \in State /\ t.inodes = s.inodes /\ t.table = s.table
  /\ s.used \subseteq t.used /\ \A j \in s.used : t.disk[j] = s.disk[j]

\* t is s with a new file f, of inode sector i, with blank blocks in `new`.
NewFile(s, f, n, i, new, blocks, t) ==
  /\ f \notin Files(s) /\ t.dir = Added(s.dir, f, i)
  /\ t.used = s.used \cup {i} \cup new
  /\ t.disk[i] = Inode(n, blocks) /\ Extends(<<>>, blocks, new)
  /\ SectorsFor(n) <= Len(blocks) /\ \A b \in new : t.disk[b] = Blank

(* The record of an inode with room for its length.                        *)
LEMMA InodeIs ==
  ASSUME NEW n \in 0 .. MaxLength, NEW blocks \in Seq(Sector)
  PROVE  /\ Inode(n, blocks) \in InodeRecord
         /\ Inode(n, blocks).len = n /\ Inode(n, blocks).blocks = blocks
         /\ SectorsFor(n) <= Len(blocks) => Inode(n, blocks) \in InodeRec
  BY DEF Inode, InodeRecord, InodeRec

PutUsed(s, u) == [s EXCEPT !.used = u]
PutDisk(s, d) == [s EXCEPT !.disk = d]
PutDir(s, d) == [s EXCEPT !.dir = d]
PutInodes(s, m) == [s EXCEPT !.inodes = m]

(* Another free map.                                                       *)
LEMMA WithUsed ==
  ASSUME NEW s \in State, NEW u \in SUBSET Sector, NEW t, t = PutUsed(s, u)
  PROVE  /\ t \in State /\ t.used = u /\ t.disk = s.disk
         /\ t.dir = s.dir /\ t.inodes = s.inodes /\ t.table = s.table
  BY DEF State, PutUsed

(* Another disk.                                                           *)
LEMMA WithDisk ==
  ASSUME NEW s \in State, NEW d \in [Sector -> Record], NEW t, t = PutDisk(s, d)
  PROVE  /\ t \in State /\ t.disk = d /\ t.used = s.used
         /\ t.dir = s.dir /\ t.inodes = s.inodes /\ t.table = s.table
  BY DEF State, PutDisk

(* Another directory.                                                      *)
LEMMA WithDir ==
  ASSUME NEW s \in State, NEW d \in Seq({NoEntry} \cup DirEntry), NEW t, t = PutDir(s, d)
  PROVE  /\ t \in State /\ t.dir = d /\ t.used = s.used
         /\ t.disk = s.disk /\ t.inodes = s.inodes /\ t.table = s.table
  BY DEF State, PutDir

(* Other inodes in memory.                                                 *)
LEMMA WithInodes ==
  ASSUME NEW s \in State, NEW m \in [Sector -> Record \cup {NotOpen}],
         NEW t, t = PutInodes(s, m)
  PROVE  /\ t \in State /\ t.inodes = m /\ t.used = s.used
         /\ t.disk = s.disk /\ t.dir = s.dir /\ t.table = s.table
  BY DEF State, PutInodes

(* What filesys_create does, whether it fails early, halfway or not at     *)
(* all.                                                                    *)
LEMMA CreatedIs ==
  ASSUME NEW s \in State, System \subseteq s.used, NEW f \in FileName, NEW n \in 0 .. MaxLength,
         Free(s) # {}, NEW t, t = Created(s, f, n)
  PROVE  /\ Unmoved(s, t)
         /\ \/ t.dir = s.dir
            \/ \E i \in Sector \ s.used : \E new \in SUBSET (Sector \ (s.used \cup {i})) :
                 \E blocks : NewFile(s, f, n, i, new, blocks, t)
  <1>1. PICK i : i = Min(Free(s))
    OBVIOUS
  <1>2. i \in Sector \ s.used /\ i \notin System
    <2>1. Free(s) \in SUBSET Nat
      BY FilesAssumption DEF Free, Sector
    <2>2. i \in Free(s)
      BY <1>1, <2>1, MinFacts
    <2>3. QED
      BY <2>2 DEF Free
  <1>3. PICK u \in SUBSET Sector : u = s.used \cup {i}
    BY <1>2, StateFields
  <1>4. PICK b : b = PutUsed(s, u)
    OBVIOUS
  <1>5. /\ b \in State /\ b.used = u /\ b.disk = s.disk
        /\ b.dir = s.dir /\ b.inodes = s.inodes /\ b.table = s.table
    BY <1>4, WithUsed
  <1>6. PICK got : got = Reserve(b, <<>>, n)
    OBVIOUS
  <1>7. n \in Nat /\ <<>> \in Seq(Sector)
    BY FilesAssumption
  <1>8. PICK new \in SUBSET (Sector \ u) :
          /\ Reserved(b, new, got.state) /\ Extends(<<>>, got.blocks, new)
          /\ got.enough => SectorsFor(n) <= Len(got.blocks)
    BY <1>5, <1>6, <1>7, ReserveFacts DEF Takes
  <1>9. PICK g : g = got.state
    OBVIOUS
  <1>10. /\ g \in State /\ g.used = u \cup new
         /\ g.dir = s.dir /\ g.inodes = s.inodes /\ g.table = s.table
         /\ \A j \in new : g.disk[j] = Blank
         /\ \A j \in Sector \ new : g.disk[j] = s.disk[j]
    BY <1>5, <1>8, <1>9 DEF Reserved
  <1>11. got.blocks \in Seq(Sector)
    BY <1>8 DEF Extends
  <1>12. t = IF ~got.enough THEN [g EXCEPT !.used = @ \ {i}]
             ELSE IF f \in Files(s)
             THEN [[g EXCEPT !.disk[i] = Inode(n, got.blocks)] EXCEPT !.used = @ \ {i}]
             ELSE [[g EXCEPT !.disk[i] = Inode(n, got.blocks)] EXCEPT !.dir = Added(@, f, i)]
    <2>1. b = [s EXCEPT !.used = @ \cup {i}]
      BY <1>3, <1>4 DEF PutUsed
    <2>2. QED
      BY <1>1, <1>6, <1>9, <2>1, Zenon DEF Created
  <1>13. CASE ~got.enough
    <2>1. t = [g EXCEPT !.used = g.used \ {i}]
      BY <1>12, <1>13
    <2>2. PICK v \in SUBSET Sector : v = g.used \ {i}
      BY <1>10, StateFields
    <2>3. /\ t \in State /\ t.used = v /\ t.disk = g.disk
          /\ t.dir = g.dir /\ t.inodes = g.inodes /\ t.table = g.table
      <3>1. t = PutUsed(g, v)
        BY <2>1, <2>2 DEF PutUsed
      <3>2. QED
        BY <1>10, <3>1, WithUsed
    <2>4. s.used \subseteq v /\ \A j \in s.used : t.disk[j] = s.disk[j]
      BY <1>2, <1>3, <1>8, <1>10, <2>2, <2>3, StateFields
    <2>5. QED
      BY <1>10, <2>3, <2>4 DEF Unmoved
  <1>14. CASE got.enough
    <2>1. PICK x \in InodeRec : x = Inode(n, got.blocks)
      BY <1>8, <1>11, <1>14, InodeIs
    <2>2. PICK d : d = [g.disk EXCEPT ![i] = x]
      OBVIOUS
    <2>3. /\ d \in [Sector -> Record] /\ d[i] = x
          /\ \A j \in Sector : j # i => d[j] = g.disk[j]
      <3>1. g.disk \in [Sector -> Record] /\ x \in Record
        BY <1>10, StateFields DEF Record
      <3>2. QED
        BY <1>2, <2>2, <3>1
    <2>4. PICK m : m = PutDisk(g, d)
      OBVIOUS
    <2>5. /\ m \in State /\ m.disk = d /\ m.used = g.used
          /\ m.dir = g.dir /\ m.inodes = g.inodes /\ m.table = g.table
      BY <1>10, <2>3, <2>4, WithDisk
    <2>6. \A j \in s.used : d[j] = s.disk[j]
      BY <1>2, <1>3, <1>8, <1>10, <2>3, StateFields
    <2>7. m = [g EXCEPT !.disk[i] = Inode(n, got.blocks)]
      BY <2>1, <2>2, <2>4 DEF PutDisk
    <2>8. CASE f \in Files(s)
      <3>1. t = [m EXCEPT !.used = m.used \ {i}]
        BY <1>12, <1>14, <2>7, <2>8
      <3>2. PICK v \in SUBSET Sector : v = m.used \ {i}
        BY <2>5, StateFields
      <3>3. /\ t \in State /\ t.used = v /\ t.disk = m.disk
            /\ t.dir = m.dir /\ t.inodes = m.inodes /\ t.table = m.table
        <4>1. t = PutUsed(m, v)
          BY <3>1, <3>2 DEF PutUsed
        <4>2. QED
          BY <2>5, <4>1, WithUsed
      <3>4. s.used \subseteq v
        BY <1>2, <1>3, <1>10, <2>5, <3>2
      <3>5. QED
        BY <1>10, <2>5, <2>6, <3>3, <3>4 DEF Unmoved
    <2>9. CASE f \notin Files(s)
      <3>1. t = [m EXCEPT !.dir = Added(m.dir, f, i)]
        BY <1>12, <1>14, <2>7, <2>9
      <3>2. m.dir = s.dir
        BY <1>10, <2>5
      <3>3. PICK e \in Seq({NoEntry} \cup DirEntry) : e = Added(m.dir, f, i)
        <4>1. PICK a \in Seq({NoEntry} \cup DirEntry) : a = s.dir
          BY StateFields
        <4>2. Added(a, f, i) \in Seq({NoEntry} \cup DirEntry)
          BY <1>2, AddedSlot
        <4>3. QED
          BY <3>2, <4>1, <4>2
      <3>4. /\ t \in State /\ t.dir = e /\ t.used = m.used /\ t.disk = m.disk
            /\ t.inodes = m.inodes /\ t.table = m.table
        <4>1. t = PutDir(m, e)
          BY <3>1, <3>3 DEF PutDir
        <4>2. QED
          BY <2>5, <4>1, WithDir
      <3>5. Unmoved(s, t)
        BY <1>3, <1>10, <2>5, <2>6, <3>4 DEF Unmoved
      <3>6. t.used = s.used \cup {i} \cup new
        BY <1>3, <1>10, <2>5, <3>4
      <3>7. t.disk[i] = Inode(n, got.blocks) /\ \A j \in new : t.disk[j] = Blank
        BY <1>3, <1>8, <1>10, <2>1, <2>3, <2>5, <3>4
      <3>8. NewFile(s, f, n, i, new, got.blocks, t)
        BY <1>8, <1>14, <2>9, <3>2, <3>3, <3>4, <3>6, <3>7 DEF NewFile
      <3>9. new \in SUBSET (Sector \ (s.used \cup {i}))
        BY <1>3
      <3>10. QED
        BY <1>2, <3>5, <3>8, <3>9
    <2>10. QED
      BY <2>8, <2>9
  <1>15. QED
    BY <1>13, <1>14

(* A step that touches free sectors only keeps the invariant.              *)
LEMMA UnmovedKeeps ==
  ASSUME NEW s, Good(s), Clean(s), NEW t, Unmoved(s, t), t.dir = s.dir
  PROVE  /\ Good(t) /\ Clean(t) /\ Files(t) = Files(s)
         /\ \A g : InodeOf(t, g) = InodeOf(s, g)
         /\ \A g \in Files(s) : Mem(t, g) = Mem(s, g)
  <1>1. Files(t) = Files(s) /\ \A g : InodeOf(t, g) = InodeOf(s, g)
    BY SameDir
  <1>2. /\ t \in State /\ t.inodes = s.inodes /\ t.table = s.table
        /\ s.used \subseteq t.used /\ \A j \in s.used : t.disk[j] = s.disk[j]
    BY DEF Unmoved
  <1>3. ASSUME NEW g \in Files(s)
        PROVE  /\ InodeOf(s, g) \in s.used /\ g \in Kept(s)
               /\ t.disk[InodeOf(s, g)] = s.disk[InodeOf(s, g)]
               /\ Mem(t, g) = Mem(s, g)
    <2>1. InodeOf(s, g) \in s.used
      BY DEF Clean
    <2>2. g \in Kept(s)
      BY <2>1 DEF Kept
    <2>3. QED
      BY <1>1, <1>2, <2>1, <2>2 DEF Mem, InMemory
  <1>4. Named(t)
    BY <1>1 DEF Good, Named
  <1>5. Kinds(t)
    BY <1>1, <1>2, <1>3 DEF Good, Kinds
  <1>6. Held(t)
    BY <1>1, <1>2 DEF Good, Held
  <1>7. \A j \in Sector : t.inodes[j] # NotOpen => j \in s.used /\ j \in t.used
    BY <1>2 DEF Clean
  <1>8. Spare(t)
    BY <1>7 DEF Spare
  <1>9. Owners(t)
    <2>1. SUFFICES ASSUME NEW j \in t.used, t.inodes[j] # NotOpen
                   PROVE  \E g \in DOMAIN t.table : t.table[g].inode = j
      BY DEF Owners
    <2>2. j \in Sector
      BY <1>2, StateFields
    <2>3. j \in s.used
      BY <1>7, <2>1, <2>2
    <2>4. QED
      BY <1>2, <2>1, <2>3 DEF Good, Owners
  <1>10. Clean(t)
    BY <1>1, <1>2, <1>3, <1>7 DEF Clean
  <1>11. Strays(t)
    BY <1>10 DEF Strays, Clean, Kept
  <1>12. Apart(t) /\ Zeroed(t)
    <2>1. \A g \in Kept(t) : g \in Files(s)
      BY <1>1 DEF Kept
    <2>2. ASSUME NEW g \in Kept(t)
          PROVE  /\ InodeOf(t, g) = InodeOf(s, g)
                 /\ Mem(t, g) \in InodeRec /\ Shrinks(Mem(t, g), Mem(s, g))
                 /\ \A b \in Own(s, g) : b \in t.used /\ t.disk[b] = s.disk[b]
      <3>1. Mem(s, g) \in InodeRec /\ Shrinks(Mem(s, g), Mem(s, g))
        BY <2>1, MemFacts, ShrinksSelf
      <3>2. Own(s, g) \subseteq s.used
        BY <1>3, <2>1 DEF Good, Apart
      <3>3. QED
        BY <1>1, <1>2, <1>3, <2>1, <3>1, <3>2
    <2>3. Kept(t) \subseteq Kept(s)
      BY <1>3, <2>1
    <2>4. QED
      BY <2>2, <2>3, LayoutKept
  <1>13. System \subseteq t.used
    BY <1>2 DEF Good
  <1>14. Good(t)
    BY <1>2, <1>4, <1>5, <1>6, <1>8, <1>9, <1>11, <1>12, <1>13 DEF Good
  <1>15. QED
    BY <1>1, <1>3, <1>10, <1>14

\* The sectors of an inode belong to no file.
Unclaimed(s, i, x) ==
  /\ BlocksOf(x) \subseteq s.used \ System /\ i \notin BlocksOf(x)
  /\ Injective(x.blocks) /\ ZeroEnd(s.disk, x)
  /\ \A g \in Kept(s) :
       /\ i \notin Own(s, g) /\ InodeOf(s, g) \notin BlocksOf(x)
       /\ Own(s, g) \cap BlocksOf(x) = {}

(* dir_add of an inode that is no file's, or of a sector that is free.     *)
LEMMA EntryKeeps ==
  ASSUME NEW s, Good(s), NEW f \in FileName \ Files(s), NEW i \in Sector \ System,
         \A g \in Files(s) : InodeOf(s, g) # i,
         NEW x \in InodeRec, s.disk[i] = x, s.inodes[i] # NotOpen => s.inodes[i] = x,
         i \in s.used => Unclaimed(s, i, x), i \notin s.used => f = Recovered(i),
         NEW t \in State, t.used = s.used, t.disk = s.disk, t.inodes = s.inodes,
         t.table = s.table, t.dir = Added(s.dir, f, i)
  PROVE  /\ Good(t) /\ Files(t) = Files(s) \cup {f}
         /\ \A g \in Files(t) : InodeOf(t, g) = IF g = f THEN i ELSE InodeOf(s, g)
  <1>1. s \in State /\ Distinct(s.dir)
    BY DEF Good, Named
  <1>2. Distinct(t.dir) /\ Files(t) = Files(s) \cup {f}
    BY <1>1, AddedIs
  <1>3. ASSUME NEW g \in Files(t) PROVE InodeOf(t, g) = IF g = f THEN i ELSE InodeOf(s, g)
    BY <1>1, AddedInodes
  <1>4. f \in Files(t) /\ InodeOf(t, f) = i
    BY <1>2, <1>3
  <1>5. \A g \in Files(s) : g # f /\ g \in Files(t) /\ InodeOf(t, g) = InodeOf(s, g)
    BY <1>2, <1>3
  <1>6. Mem(t, f) = x
    BY <1>4 DEF Mem, InMemory
  <1>7. \A g \in Files(s) : Mem(t, g) = Mem(s, g)
    BY <1>5 DEF Mem, InMemory
  <1>8. Named(t)
    <2>1. SUFFICES ASSUME NEW a \in Files(t), NEW b \in Files(t), InodeOf(t, a) = InodeOf(t, b)
                   PROVE  a = b
      BY <1>2 DEF Named
    <2>2. CASE a = f \/ b = f
      BY <1>2, <1>4, <1>5, <2>1, <2>2
    <2>3. CASE a \in Files(s) /\ b \in Files(s)
      BY <1>5, <2>1, <2>3 DEF Good, Named
    <2>4. QED
      BY <1>2, <2>2, <2>3
  <1>9. Kinds(t)
    <2>1. SUFFICES ASSUME NEW g \in Files(t)
                   PROVE  /\ t.disk[InodeOf(t, g)] \in InodeRec
                          /\ t.inodes[InodeOf(t, g)] # NotOpen =>
                               /\ t.inodes[InodeOf(t, g)] \in InodeRec
                               /\ Shrinks(t.disk[InodeOf(t, g)], t.inodes[InodeOf(t, g)])
      BY DEF Kinds
    <2>2. CASE g = f
      BY <1>4, <2>2, ShrinksSelf
    <2>3. CASE g \in Files(s)
      BY <1>5, <2>3 DEF Good, Kinds
    <2>4. QED
      BY <1>2, <2>2, <2>3
  <1>10. Held(t)
    BY <1>5 DEF Good, Held
  <1>11. Spare(t) /\ Owners(t)
    BY DEF Good, Spare, Owners
  <1>12. \A g \in Files(s) : g \in Kept(t) <=> g \in Kept(s)
    BY <1>5 DEF Kept
  <1>13. f \in Kept(t) <=> i \in s.used
    BY <1>4 DEF Kept
  <1>14. Strays(t)
    <2>1. SUFFICES ASSUME NEW g \in Files(t), g \notin Kept(t) PROVE g = Recovered(InodeOf(t, g))
      BY DEF Strays
    <2>2. CASE g = f
      BY <1>4, <1>13, <2>1, <2>2
    <2>3. CASE g \in Files(s)
      BY <1>5, <1>12, <2>1, <2>3 DEF Good, Strays
    <2>4. QED
      BY <1>2, <2>2, <2>3
  <1>15. \A g \in Kept(t) : g \in Files(t)
    BY DEF Kept
  <1>16. Own(t, f) = BlocksOf(x) /\ \A g \in Files(s) : Own(t, g) = Own(s, g)
    BY <1>6, <1>7 DEF Own
  <1>17. Apart(t)
    <2>1. SUFFICES ASSUME NEW a \in Kept(t)
                   PROVE  /\ Own(t, a) \subseteq t.used \ System
                          /\ \A b \in Kept(t) : InodeOf(t, b) \notin Own(t, a)
                                                /\ (a # b => Own(t, a) \cap Own(t, b) = {})
                          /\ Injective(Mem(t, a).blocks)
      BY DEF Apart
    <2>2. CASE a = f
      <3>1. Unclaimed(s, i, x)
        BY <1>13, <2>2
      <3>2. ASSUME NEW b \in Kept(t)
            PROVE  InodeOf(t, b) \notin Own(t, a) /\ (a # b => Own(t, a) \cap Own(t, b) = {})
        <4>1. CASE b = f
          BY <1>4, <1>16, <2>2, <3>1, <4>1 DEF Unclaimed
        <4>2. CASE b \in Files(s)
          <5>1. b \in Kept(s)
            BY <1>12, <4>2
          <5>2. InodeOf(s, b) \notin BlocksOf(x) /\ Own(s, b) \cap BlocksOf(x) = {}
            BY <3>1, <5>1 DEF Unclaimed
          <5>3. QED
            BY <1>5, <1>16, <2>2, <4>2, <5>2
        <4>3. QED
          BY <1>2, <1>15, <4>1, <4>2
      <3>3. Own(t, a) \subseteq t.used \ System /\ Injective(Mem(t, a).blocks)
        BY <1>6, <1>16, <2>2, <3>1 DEF Unclaimed
      <3>4. QED
        BY <3>2, <3>3
    <2>3. CASE a \in Files(s)
      <3>1. a \in Kept(s)
        BY <1>12, <2>3
      <3>2. ASSUME NEW b \in Kept(t)
            PROVE  InodeOf(t, b) \notin Own(t, a) /\ (a # b => Own(t, a) \cap Own(t, b) = {})
        <4>1. CASE b = f
          <5>1. Unclaimed(s, i, x)
            BY <1>13, <4>1
          <5>2. i \notin Own(s, a) /\ Own(s, a) \cap BlocksOf(x) = {}
            BY <3>1, <5>1 DEF Unclaimed
          <5>3. QED
            BY <1>4, <1>16, <2>3, <4>1, <5>2
        <4>2. CASE b \in Files(s)
          <5>1. b \in Kept(s)
            BY <1>12, <4>2
          <5>2. InodeOf(s, b) \notin Own(s, a) /\ (a # b => Own(s, a) \cap Own(s, b) = {})
            BY <3>1, <5>1 DEF Good, Apart
          <5>3. QED
            BY <1>5, <1>16, <2>3, <4>2, <5>2
        <4>3. QED
          BY <1>2, <1>15, <4>1, <4>2
      <3>3. Own(s, a) \subseteq s.used \ System /\ Injective(Mem(s, a).blocks)
        BY <3>1 DEF Good, Apart
      <3>4. QED
        BY <1>7, <1>16, <2>3, <3>2, <3>3
    <2>4. QED
      BY <1>2, <1>15, <2>2, <2>3
  <1>18. Zeroed(t)
    <2>1. SUFFICES ASSUME NEW a \in Kept(t) PROVE ZeroEnd(t.disk, Mem(t, a))
      BY DEF Zeroed
    <2>2. CASE a = f
      BY <1>6, <1>13, <2>2 DEF Unclaimed
    <2>3. CASE a \in Files(s)
      BY <1>7, <1>12, <2>3 DEF Good, Zeroed
    <2>4. QED
      BY <1>2, <1>15, <2>2, <2>3
  <1>19. Good(t)
    BY <1>8, <1>9, <1>10, <1>11, <1>14, <1>17, <1>18 DEF Good
  <1>20. QED
    BY <1>2, <1>3, <1>19

(* What create keeps of the files that are there, and how long the new one *)
(* is.                                                                     *)
Creates(s, f, n, t) ==
  /\ Good(t) /\ Clean(t) /\ t.table = s.table /\ t.inodes = s.inodes
  /\ Files(s) \subseteq Files(t) /\ Files(t) \subseteq Files(s) \cup {f}
  /\ \A g \in Files(s) : InodeOf(t, g) = InodeOf(s, g) /\ Mem(t, g) = Mem(s, g)
  /\ \A g \in Files(t) \ Files(s) : Mem(t, g).len = n

(* The end of a file of zeros is zero.                                     *)
LEMMA BlankEnd ==
  ASSUME NEW n, NEW blocks \in Seq(Sector), NEW new \in SUBSET Sector, NEW d, NEW x,
         Extends(<<>>, blocks, new), \A b \in new : d[b] = Blank, x.blocks = blocks
  PROVE  ZeroEnd(d, x) /\ BlocksOf(x) \subseteq new /\ Injective(x.blocks)
  <1>1. PICK m \in Nat : m = Len(blocks)
    OBVIOUS
  <1>2. Len(<<>>) = 0
    OBVIOUS
  <1>3. /\ \A k \in 1 .. m : blocks[k] \in new
        /\ \A j, k \in 1 .. m : blocks[j] = blocks[k] => j = k
    BY <1>1, <1>2 DEF Extends
  <1>4. \A k \in 1 .. m : d[blocks[k]] = Blank
    BY <1>3
  <1>5. ZeroEnd(d, x)
    BY <1>1, <1>4, BlankFacts DEF ZeroEnd
  <1>6. QED
    BY <1>1, <1>3, <1>5 DEF BlocksOf, Injective

(* filesys_create keeps the invariant.                                     *)
LEMMA CreatedKeeps ==
  ASSUME NEW s, Good(s), Clean(s), NEW f \in FileName, NEW n \in 0 .. MaxLength,
         NEW t, t = Created(s, f, n)
  PROVE  Creates(s, f, n, t)
  <1>1. CASE Free(s) = {}
    <2>1. t = s
      BY <1>1 DEF Created
    <2>2. QED
      BY <2>1 DEF Creates
  <1>2. CASE Free(s) # {}
    <2>1. s \in State /\ System \subseteq s.used /\ Distinct(s.dir)
      BY DEF Good, Named
    <2>2. /\ Unmoved(s, t)
          /\ \/ t.dir = s.dir
             \/ \E i \in Sector \ s.used : \E new \in SUBSET (Sector \ (s.used \cup {i})) :
                  \E blocks : NewFile(s, f, n, i, new, blocks, t)
      BY <1>2, <2>1, CreatedIs
    <2>3. t \in State /\ t.table = s.table /\ t.inodes = s.inodes
      BY <2>2 DEF Unmoved
    <2>4. CASE t.dir = s.dir
      BY <2>2, <2>3, <2>4, UnmovedKeeps DEF Creates
    <2>5. ASSUME NEW i \in Sector \ s.used, NEW new \in SUBSET (Sector \ (s.used \cup {i})),
                 NEW blocks, NewFile(s, f, n, i, new, blocks, t)
          PROVE  Creates(s, f, n, t)
      <3>1. PICK m : m = PutDir(t, s.dir)
        OBVIOUS
      <3>2. /\ m \in State /\ m.dir = s.dir /\ m.used = t.used
            /\ m.disk = t.disk /\ m.inodes = t.inodes /\ m.table = t.table
        <4>1. PICK e \in Seq({NoEntry} \cup DirEntry) : e = s.dir
          BY <2>1, StateFields
        <4>2. m = PutDir(t, e)
          BY <3>1, <4>1
        <4>3. QED
          BY <2>3, <4>1, <4>2, WithDir
      <3>3. Unmoved(s, m)
        BY <2>2, <3>2 DEF Unmoved
      <3>4. /\ Good(m) /\ Clean(m) /\ Files(m) = Files(s)
            /\ \A g : InodeOf(m, g) = InodeOf(s, g)
            /\ \A g \in Files(s) : Mem(m, g) = Mem(s, g)
        BY <3>2, <3>3, UnmovedKeeps
      <3>5. /\ f \notin Files(s) /\ t.dir = Added(s.dir, f, i)
            /\ t.used = s.used \cup {i} \cup new
            /\ t.disk[i] = Inode(n, blocks) /\ Extends(<<>>, blocks, new)
            /\ SectorsFor(n) <= Len(blocks) /\ \A b \in new : t.disk[b] = Blank
        BY <2>5 DEF NewFile
      <3>6. blocks \in Seq(Sector)
        BY <3>5 DEF Extends
      <3>7. PICK x \in InodeRec : x = Inode(n, blocks) /\ x.blocks = blocks
        BY <3>5, <3>6, InodeIs
      <3>8. \A g \in Files(s) : InodeOf(s, g) \in s.used /\ g \in Kept(s)
        BY DEF Clean, Kept
      <3>9. \A g \in Files(s) : Own(s, g) \subseteq s.used
        BY <3>8 DEF Good, Apart
      <3>10. ZeroEnd(m.disk, x) /\ BlocksOf(x) \subseteq new /\ Injective(x.blocks)
        <4>1. new \in SUBSET Sector /\ \A b \in new : m.disk[b] = Blank
          BY <3>2, <3>5
        <4>2. QED
          BY <3>5, <3>6, <3>7, <4>1, BlankEnd
      <3>11. Unclaimed(m, i, x)
        <4>1. BlocksOf(x) \subseteq m.used \ System /\ i \notin BlocksOf(x)
          BY <2>1, <3>2, <3>5, <3>10
        <4>2. ASSUME NEW g \in Kept(m)
              PROVE  /\ i \notin Own(m, g) /\ InodeOf(m, g) \notin BlocksOf(x)
                     /\ Own(m, g) \cap BlocksOf(x) = {}
          <5>1. g \in Files(s)
            BY <3>4 DEF Kept
          <5>2. Own(m, g) = Own(s, g)
            BY <3>4, <5>1 DEF Own
          <5>3. Own(s, g) \subseteq s.used /\ InodeOf(s, g) \in s.used
            BY <3>8, <3>9, <5>1
          <5>4. QED
            BY <3>4, <3>10, <5>2, <5>3
        <4>3. QED
          BY <3>10, <4>1, <4>2 DEF Unclaimed
      <3>12. m.disk[i] = x /\ m.inodes[i] = NotOpen
        BY <2>3, <3>2, <3>5, <3>7 DEF Clean
      <3>13. \A g \in Files(m) : InodeOf(m, g) # i
        BY <3>4, <3>8
      <3>14. f \in FileName \ Files(m) /\ i \in Sector \ System /\ i \in m.used
        BY <2>1, <3>2, <3>4, <3>5
      <3>15. Good(t) /\ Files(t) = Files(m) \cup {f}
        <4>1. /\ i \in m.used => Unclaimed(m, i, x)
              /\ i \notin m.used => f = Recovered(i)
              /\ m.inodes[i] # NotOpen => m.inodes[i] = x
          BY <3>11, <3>12, <3>14
        <4>2. /\ t.used = m.used /\ t.disk = m.disk /\ t.inodes = m.inodes
              /\ t.table = m.table /\ t.dir = Added(m.dir, f, i)
          BY <3>2, <3>5
        <4>3. QED
          BY <2>3, <3>4, <3>12, <3>13, <3>14, <4>1, <4>2, EntryKeeps
      <3>16. ASSUME NEW g \in Files(t) PROVE InodeOf(t, g) = IF g = f THEN i ELSE InodeOf(s, g)
        <4>1. InodeOf(t, g) = IF g = f THEN i ELSE InodeOf(m, g)
          BY <2>1, <2>3, <3>2, <3>4, <3>5, <3>14, AddedInodes DEF Good, Named
        <4>2. QED
          BY <3>4, <4>1
      <3>17. \A g \in Files(s) : InodeOf(t, g) = InodeOf(s, g) /\ Mem(t, g) = Mem(s, g)
        <4>1. ASSUME NEW g \in Files(s) PROVE InodeOf(t, g) = InodeOf(s, g)
          BY <3>4, <3>5, <3>15, <3>16
        <4>2. ASSUME NEW g \in Files(s) PROVE Mem(t, g) = Mem(s, g)
          <5>1. Mem(m, g) = Mem(s, g) /\ InodeOf(m, g) = InodeOf(s, g)
            BY <3>4
          <5>2. QED
            BY <3>2, <4>1, <5>1 DEF Mem, InMemory
        <4>3. QED
          BY <4>1, <4>2
      <3>18. Clean(t)
        <4>1. \A g \in Files(t) : InodeOf(t, g) \in t.used
          BY <3>4, <3>5, <3>8, <3>15, <3>16
        <4>2. QED
          BY <2>3, <3>5, <4>1 DEF Clean
      <3>19. ASSUME NEW g \in Files(t) \ Files(s) PROVE Mem(t, g).len = n
        <4>1. g = f /\ g \in Files(t)
          BY <3>4, <3>15, <3>19
        <4>2. InodeOf(t, g) = i
          BY <3>16, <4>1
        <4>3. Mem(t, g) = x
          BY <2>3, <3>2, <3>12, <4>2 DEF Mem, InMemory
        <4>4. QED
          BY <3>6, <3>7, <4>3, InodeIs
      <3>20. QED
        BY <2>3, <3>4, <3>15, <3>17, <3>18, <3>19 DEF Creates
    <2>6. QED
      BY <2>2, <2>4, <2>5
  <1>3. QED
    BY <1>1, <1>2

-----------------------------------------------------------------------------
\* The blocks of x are the first of y.
Begins(x, y) == \A k \in 1 .. Len(x.blocks) : y.blocks[k] = x.blocks[k]

\* t is s with another inode y for the open file f, and other bytes.
Rewrites(s, f, y, t) ==
  LET i == InodeOf(s, f)
  IN /\ t \in State /\ t.dir = s.dir /\ t.table = s.table /\ s.used \subseteq t.used
     /\ \A j \in Sector \ {i} : t.inodes[j] = s.inodes[j]
     /\ t.inodes[i] = y /\ t.disk[i] \in InodeRec /\ Shrinks(t.disk[i], y)
     /\ \A j \in s.used \ ({i} \cup Own(s, f)) : t.disk[j] = s.disk[j]
     /\ \A j \in Sector \ t.used : t.disk[j] = s.disk[j]
     /\ BlocksOf(y) \subseteq Own(s, f) \cup (t.used \ s.used) /\ Begins(Mem(s, f), y)
     /\ Injective(y.blocks) /\ ZeroEnd(t.disk, y)

(* A file may have its inode, its sectors and its bytes changed, if the    *)
(* sectors it gains were free.                                             *)
LEMMA RewritesKeeps ==
  ASSUME NEW s, Good(s), Clean(s), NEW f \in Files(s), f \in DOMAIN s.table,
         NEW y \in InodeRec, NEW t, Rewrites(s, f, y, t)
  PROVE  /\ Good(t) /\ Clean(t) /\ Files(t) = Files(s)
         /\ \A g : InodeOf(t, g) = InodeOf(s, g)
         /\ \A g \in Files(s) : g # f => Mem(t, g) = Mem(s, g)
         /\ Mem(t, f) = y
  <1>1. PICK i \in Sector \ System : i = InodeOf(s, f)
    BY MemFacts
  <1>2. /\ t \in State /\ t.dir = s.dir /\ t.table = s.table /\ s.used \subseteq t.used
        /\ \A j \in Sector \ {i} : t.inodes[j] = s.inodes[j]
        /\ t.inodes[i] = y /\ t.disk[i] \in InodeRec /\ Shrinks(t.disk[i], y)
    BY <1>1 DEF Rewrites
  <1>3. /\ \A j \in s.used \ ({i} \cup Own(s, f)) : t.disk[j] = s.disk[j]
        /\ BlocksOf(y) \subseteq Own(s, f) \cup (t.used \ s.used)
        /\ Injective(y.blocks) /\ ZeroEnd(t.disk, y)
    BY <1>1 DEF Rewrites
  <1>4. Files(t) = Files(s) /\ \A g : InodeOf(t, g) = InodeOf(s, g)
    BY <1>2, SameDir
  <1>5. y # NotOpen
    BY NotOpenIsNone DEF Record
  <1>6. Mem(t, f) = y
    BY <1>1, <1>2, <1>4, <1>5 DEF Mem, InMemory
  <1>7. \A g \in Files(s) : InodeOf(s, g) \in s.used /\ g \in Kept(s)
    BY DEF Clean, Kept
  <1>8. ASSUME NEW g \in Files(s), g # f
        PROVE  /\ InodeOf(s, g) \in Sector /\ InodeOf(s, g) # i
               /\ t.disk[InodeOf(s, g)] = s.disk[InodeOf(s, g)]
               /\ t.inodes[InodeOf(s, g)] = s.inodes[InodeOf(s, g)]
               /\ Mem(t, g) = Mem(s, g) /\ Own(t, g) = Own(s, g)
               /\ Own(s, g) \subseteq s.used \ System /\ Own(s, g) \cap Own(s, f) = {}
               /\ i \notin Own(s, g) /\ InodeOf(s, g) \notin Own(s, f)
    <2>1. InodeOf(s, g) \in Sector /\ InodeOf(s, g) # i
      BY <1>1, <1>8, MemFacts DEF Good, Named
    <2>2. /\ Own(s, g) \subseteq s.used \ System /\ Own(s, g) \cap Own(s, f) = {}
          /\ i \notin Own(s, g) /\ InodeOf(s, g) \notin Own(s, f)
      BY <1>1, <1>7, <1>8 DEF Good, Apart
    <2>3. t.disk[InodeOf(s, g)] = s.disk[InodeOf(s, g)]
      BY <1>3, <1>7, <2>1, <2>2
    <2>4. t.inodes[InodeOf(s, g)] = s.inodes[InodeOf(s, g)]
      BY <1>2, <2>1
    <2>5. Mem(t, g) = Mem(s, g)
      BY <1>4, <2>3, <2>4 DEF Mem, InMemory
    <2>6. Own(t, g) = Own(s, g)
      BY <2>5 DEF Own
    <2>7. QED
      BY <2>1, <2>2, <2>3, <2>4, <2>5, <2>6
  <1>9. Named(t)
    BY <1>2, <1>4 DEF Good, Named
  <1>10. Kinds(t)
    <2>1. SUFFICES ASSUME NEW g \in Files(s)
                   PROVE  /\ t.disk[InodeOf(s, g)] \in InodeRec
                          /\ t.inodes[InodeOf(s, g)] # NotOpen =>
                               /\ t.inodes[InodeOf(s, g)] \in InodeRec
                               /\ Shrinks(t.disk[InodeOf(s, g)], t.inodes[InodeOf(s, g)])
      BY <1>4 DEF Kinds
    <2>2. CASE g = f
      BY <1>1, <1>2, <2>2
    <2>3. CASE g # f
      BY <1>8, <2>3 DEF Good, Kinds
    <2>4. QED
      BY <2>2, <2>3
  <1>11. Held(t)
    BY <1>2, <1>4 DEF Good, Held
  <1>12. \A j \in Sector : t.inodes[j] # NotOpen => j \in s.used /\ j \in t.used
    BY <1>1, <1>2, <1>7 DEF Clean
  <1>13. Spare(t)
    BY <1>12 DEF Spare
  <1>14. Owners(t)
    <2>1. SUFFICES ASSUME NEW j \in t.used, t.inodes[j] # NotOpen
                   PROVE  \E g \in DOMAIN t.table : t.table[g].inode = j
      BY DEF Owners
    <2>2. j \in Sector
      BY <1>2, StateFields
    <2>3. CASE j = i
      BY <1>1, <1>2, <2>3 DEF Good, Held
    <2>4. CASE j # i
      <3>1. j \in s.used /\ s.inodes[j] # NotOpen
        BY <1>2, <1>12, <2>1, <2>2, <2>4
      <3>2. QED
        BY <1>2, <3>1 DEF Good, Owners
    <2>5. QED
      BY <2>3, <2>4
  <1>15. Clean(t)
    BY <1>2, <1>4, <1>7, <1>12 DEF Clean
  <1>16. Strays(t)
    BY <1>15 DEF Strays, Clean, Kept
  <1>17. Own(t, f) = BlocksOf(y)
    BY <1>6 DEF Own
  <1>18. Own(s, f) \subseteq s.used \ System /\ i \notin Own(s, f) /\ System \subseteq s.used
    BY <1>1, <1>7 DEF Good, Apart
  <1>19. \A g \in Kept(t) : g \in Files(s)
    BY <1>4 DEF Kept
  <1>20. Apart(t)
    <2>1. SUFFICES ASSUME NEW a \in Kept(t)
                   PROVE  /\ Own(t, a) \subseteq t.used \ System
                          /\ \A b \in Kept(t) : InodeOf(t, b) \notin Own(t, a)
                                                /\ (a # b => Own(t, a) \cap Own(t, b) = {})
                          /\ Injective(Mem(t, a).blocks)
      BY DEF Apart
    <2>2. a \in Files(s)
      BY <1>19
    <2>3. CASE a = f
      <3>1. Own(t, a) \subseteq t.used \ System /\ Injective(Mem(t, a).blocks)
        BY <1>2, <1>3, <1>6, <1>17, <1>18, <2>3
      <3>2. ASSUME NEW b \in Kept(t)
            PROVE  InodeOf(t, b) \notin Own(t, a) /\ (a # b => Own(t, a) \cap Own(t, b) = {})
        <4>1. b \in Files(s) /\ InodeOf(t, b) = InodeOf(s, b) /\ InodeOf(s, b) \in s.used
          BY <1>4, <1>7, <1>19
        <4>2. CASE b = f
          BY <1>1, <1>3, <1>17, <1>18, <2>3, <4>1, <4>2
        <4>3. CASE b # f
          BY <1>3, <1>8, <1>17, <2>3, <4>1, <4>3
        <4>4. QED
          BY <4>2, <4>3
      <3>3. QED
        BY <3>1, <3>2
    <2>4. CASE a # f
      <3>1. /\ Own(t, a) = Own(s, a) /\ Mem(t, a) = Mem(s, a)
            /\ Own(s, a) \subseteq s.used \ System /\ Own(s, a) \cap Own(s, f) = {}
            /\ i \notin Own(s, a)
        BY <1>8, <2>2, <2>4
      <3>2. Injective(Mem(t, a).blocks)
        BY <1>7, <2>2, <3>1 DEF Good, Apart
      <3>3. ASSUME NEW b \in Kept(t)
            PROVE  InodeOf(t, b) \notin Own(t, a) /\ (a # b => Own(t, a) \cap Own(t, b) = {})
        <4>1. b \in Files(s) /\ InodeOf(t, b) = InodeOf(s, b)
          BY <1>4, <1>19
        <4>2. CASE b = f
          BY <1>1, <1>3, <1>17, <3>1, <4>1, <4>2
        <4>3. CASE b # f
          <5>1. Own(t, b) = Own(s, b)
            BY <1>8, <4>1, <4>3
          <5>2. InodeOf(s, b) \notin Own(s, a) /\ (a # b => Own(s, a) \cap Own(s, b) = {})
            BY <1>7, <2>2, <4>1 DEF Good, Apart
          <5>3. QED
            BY <3>1, <4>1, <5>1, <5>2
        <4>4. QED
          BY <4>2, <4>3
      <3>4. QED
        BY <1>2, <3>1, <3>2, <3>3
    <2>5. QED
      BY <2>3, <2>4
  <1>21. Zeroed(t)
    <2>1. SUFFICES ASSUME NEW a \in Kept(t) PROVE ZeroEnd(t.disk, Mem(t, a))
      BY DEF Zeroed
    <2>2. a \in Files(s)
      BY <1>19
    <2>3. CASE a = f
      BY <1>3, <1>6, <2>3
    <2>4. CASE a # f
      <3>1. Mem(t, a) = Mem(s, a)
        BY <1>8, <2>2, <2>4
      <3>2. ZeroEnd(s.disk, Mem(s, a))
        BY <1>7, <2>2 DEF Good, Zeroed
      <3>3. ASSUME NEW k \in 1 .. Len(Mem(s, a).blocks)
            PROVE  t.disk[Mem(s, a).blocks[k]] = s.disk[Mem(s, a).blocks[k]]
        <4>1. Mem(s, a).blocks[k] \in Own(s, a)
          BY DEF Own, BlocksOf
        <4>2. QED
          BY <1>3, <1>8, <2>2, <2>4, <4>1
      <3>4. QED
        BY <3>1, <3>2, <3>3 DEF ZeroEnd
    <2>5. QED
      BY <2>3, <2>4
  <1>22. Good(t)
    BY <1>2, <1>9, <1>10, <1>11, <1>13, <1>14, <1>16, <1>18, <1>20, <1>21 DEF Good
  <1>23. \A g \in Files(s) : g # f => Mem(t, g) = Mem(s, g)
    BY <1>8
  <1>24. QED
    BY <1>4, <1>6, <1>15, <1>22, <1>23

-----------------------------------------------------------------------------
(* inode_write_at within the length of an inode.                           *)
LEMMA Quotient ==
  ASSUME NEW P \in Nat \ {0}, NEW a \in Nat, NEW h \in 1 .. P
  PROVE  (a * P + h - 1) \div P = a /\ a * P + h - 1 \in Nat
  <1>1. PICK m \in Nat : m = a * P
    OBVIOUS
  <1>2. PICK n \in Nat : n = m + h - 1
    <2>1. m + h - 1 \in Nat
      OBVIOUS
    <2>2. QED
      BY <2>1
  <1>3. PICK q \in Nat, r \in 0 .. P - 1 : n = P * q + r /\ q = n \div P
    BY Division
  <1>4. CASE q < a
    <2>1. q + 1 <= a
      BY <1>4
    <2>2. P * (q + 1) <= P * a
      BY <2>1
    <2>3. P * (q + 1) = P * q + P /\ P * a = a * P
      OBVIOUS
    <2>4. QED
      BY <1>1, <1>2, <1>3, <2>2, <2>3
  <1>5. CASE a < q
    <2>1. a + 1 <= q
      BY <1>5
    <2>2. P * (a + 1) <= P * q
      BY <2>1
    <2>3. P * (a + 1) = a * P + P
      OBVIOUS
    <2>4. QED
      BY <1>1, <1>2, <1>3, <2>2, <2>3
  <1>6. CASE q = a
    BY <1>1, <1>2, <1>3, <1>6
  <1>7. QED
    BY <1>3, <1>4, <1>5, <1>6

\* The byte at place h of block k after a write of `bytes` at p.
NewByte(d, blocks, p, bytes, k, h) ==
  LET q == (k - 1) * SectorSize + h - 1
  IN IF q \in p .. p + Len(bytes) - 1 THEN bytes[q - p + 1] ELSE Raw(d[blocks[k]])[h]

\* r is d with `bytes` written at p of the blocks.
Writes(d, blocks, p, bytes, r) ==
  /\ r \in [Sector -> Record]
  /\ \A j \in Sector : (\A k \in 1 .. Len(blocks) : blocks[k] # j) => r[j] = d[j]
  /\ \A k \in 1 .. Len(blocks), h \in 1 .. SectorSize :
       Raw(r[blocks[k]])[h] = NewByte(d, blocks, p, bytes, k, h)

StoreStep(e, d, k) ==
  LET at == e.inode.blocks[k]
  IN [d EXCEPT ![at] = Data([h \in 1 .. SectorSize |->
       LET q == (k - 1) * SectorSize + h - 1
       IN IF q \in DOMAIN e.new THEN e.new[q] ELSE Raw(d[at])[h]])]
StoreFold == INSTANCE FoldFacts WITH Op <- StoreStep

Stores(e, inode, p, bytes) ==
  e.inode = inode /\ e.new = [q \in p .. p + Len(bytes) - 1 |-> bytes[q - p + 1]]
Touched(e) ==
  {k \in 1 .. Len(e.inode.blocks) : \E q \in DOMAIN e.new : q \div SectorSize = k - 1}

(* Stored is the fold of StoreStep.                                        *)
LEMMA StoredFold ==
  ASSUME NEW d, NEW inode, NEW p, NEW bytes, NEW e, Stores(e, inode, p, bytes)
  PROVE  Stored(d, inode, p, bytes) = StoreFold!FoldedSet(e, d, Touched(e))
  <1>1. e.inode = inode /\ e.new = [q \in p .. p + Len(bytes) - 1 |-> bytes[q - p + 1]]
    BY DEF Stores
  <1>2. Stored(d, inode, p, bytes) =
          StoreFold!FoldedSet(e, d, {k \in 1 .. Len(inode.blocks) :
             \E q \in DOMAIN e.new : q \div SectorSize = k - 1})
    BY <1>1 DEF Stored, FoldSet, MapThenFoldSet, StoreFold!FoldedSet, StoreStep
  <1>3. QED
    BY <1>1, <1>2 DEF Touched

(* Stored is the last of a chain of stores, one a byte.                    *)
LEMMA StoreFoldIs ==
  ASSUME NEW e, NEW d, NEW T, IsFiniteSet(T), NEW F, StoreFold!Unfolds(e, d, T, F)
  PROVE  StoreFold!FoldedSet(e, d, T) = F[T]
  <1>1. StoreFold!IsFiniteSet(T)
    BY DEF StoreFold!IsFiniteSet, IsFiniteSet
  <1>2. QED
    BY <1>1, StoreFold!FoldOfSet

(* The bytes of a sector, whatever it holds, are a sector of bytes.        *)
LEMMA RawType ==
  ASSUME NEW x \in Record, NEW h \in 1 .. SectorSize
  PROVE  Raw(x)[h] \in Byte
  <1>1. CASE x \in DataRecord
    BY <1>1 DEF Raw, DataRecord
  <1>2. CASE x \in InodeRec
    BY <1>2 DEF Raw, InodeRec, InodeRecord, Byte
  <1>3. QED
    BY <1>1, <1>2 DEF Record

(* Raw data reads back as it was written.                                  *)
LEMMA DataIs ==
  ASSUME NEW b \in [1 .. SectorSize -> Byte]
  PROVE  Data(b) \in Record /\ Raw(Data(b)) = b
  BY DEF Data, Record, DataRecord, Raw

(* The loop of inode_write_at changes the bytes at its positions, in the   *)
(* blocks of the inode, and nothing else.                                  *)
LEMMA StoredIs ==
  ASSUME NEW d \in [Sector -> Record], NEW inode, NEW p \in Nat, NEW bytes \in Seq(Byte),
         inode.blocks \in Seq(Sector), Injective(inode.blocks),
         NEW r, r = Stored(d, inode, p, bytes)
  PROVE  Writes(d, inode.blocks, p, bytes, r)
  <1>1. PICK blocks \in Seq(Sector) : blocks = inode.blocks
    OBVIOUS
  <1>2. PICK m \in Nat : m = Len(blocks)
    OBVIOUS
  <1>3. PICK l \in Nat : l = Len(bytes)
    OBVIOUS
  <1>4. PICK new : new = [q \in p .. p + l - 1 |-> bytes[q - p + 1]]
    OBVIOUS
  <1>5. DOMAIN new = p .. p + l - 1 /\ \A q \in p .. p + l - 1 : new[q] \in Byte /\ new[q] = bytes[q - p + 1]
    <2>1. DOMAIN new = p .. p + l - 1 /\ \A q \in p .. p + l - 1 : new[q] = bytes[q - p + 1]
      BY <1>4
    <2>2. \A q \in p .. p + l - 1 : q - p + 1 \in 1 .. l
      BY <1>3
    <2>3. \A k \in 1 .. l : bytes[k] \in Byte
      BY <1>3
    <2>4. QED
      BY <2>1, <2>2, <2>3
  <1>6. PICK e : e = [inode |-> inode, new |-> new]
    OBVIOUS
  <1>7. e.inode = inode /\ e.new = new
    BY <1>6
  <1> DEFINE T == {k \in 1 .. m : \E q \in DOMAIN new : q \div SectorSize = k - 1}
             place(k, h) == (k - 1) * SectorSize + h - 1
             byte(k, h) == IF place(k, h) \in DOMAIN new THEN new[place(k, h)] ELSE Raw(d[blocks[k]])[h]
             B(k) == [h \in 1 .. SectorSize |-> byte(k, h)]
             F == [S \in SUBSET T |-> [j \in Sector |->
                     IF \E k \in S : blocks[k] = j
                     THEN Data(B(CHOOSE k \in S : blocks[k] = j)) ELSE d[j]]]
  <1>8. r = StoreFold!FoldedSet(e, d, T)
    <2>1. e.new = [q \in p .. p + Len(bytes) - 1 |-> bytes[q - p + 1]]
      BY <1>3, <1>4, <1>7
    <2>2. Stores(e, inode, p, bytes)
      BY <1>7, <2>1 DEF Stores
    <2>3. r = StoreFold!FoldedSet(e, d, Touched(e))
      BY <2>2, StoredFold
    <2>4. Touched(e) = T
      BY <1>1, <1>2, <1>7 DEF Touched
    <2>5. QED
      BY <2>3, <2>4
  <1>9. \A k \in 1 .. m : blocks[k] \in Sector
    BY <1>2
  <1>10. \A j, k \in 1 .. m : blocks[j] = blocks[k] => j = k
    BY <1>1, <1>2 DEF Injective
  <1>11. ASSUME NEW k \in 1 .. m
         PROVE  B(k) \in [1 .. SectorSize -> Byte] /\ Data(B(k)) \in Record /\ Raw(Data(B(k))) = B(k)
    <2>1. ASSUME NEW h \in 1 .. SectorSize PROVE byte(k, h) \in Byte
      <3>1. Raw(d[blocks[k]])[h] \in Byte
        BY <1>9, RawType
      <3> HIDE DEF place
      <3>2. QED
        BY <1>5, <3>1
    <2> HIDE DEF byte
    <2>2. B(k) \in [1 .. SectorSize -> Byte]
      BY <2>1
    <2> HIDE DEF B
    <2>3. QED
      BY <2>2, DataIs
  <1>12. T \in SUBSET (1 .. m) /\ IsFiniteSet(T)
    <2>1. IsFiniteSet(1 .. m)
      BY FS_Interval
    <2>2. QED
      BY <2>1, FS_Subset
  <1>13. F[{}] = d
    <2>1. {} \in SUBSET T
      OBVIOUS
    <2>2. F[{}] = [j \in Sector |-> d[j]]
      BY <2>1
    <2>3. QED
      BY <2>2
  <1>14. ASSUME NEW S \in SUBSET T, NEW c \in S
         PROVE  F[S] = StoreStep(e, F[S \ {c}], c)
    <2>1. PICK G : G = F[S \ {c}]
      OBVIOUS
    <2>2. PICK at \in Sector : at = blocks[c]
      BY <1>9, <1>12
    <2> HIDE DEF B, T
    <2>3. G = [j \in Sector |-> IF \E k \in S \ {c} : blocks[k] = j
                 THEN Data(B(CHOOSE k \in S \ {c} : blocks[k] = j)) ELSE d[j]]
      BY <2>1
    <2>4. F[S] = [j \in Sector |-> IF \E k \in S : blocks[k] = j
                 THEN Data(B(CHOOSE k \in S : blocks[k] = j)) ELSE d[j]]
      OBVIOUS
    <2>5. \A j, k \in S : blocks[j] = blocks[k] => j = k
      BY <1>10, <1>12
    <2>6. G[at] = d[at]
      BY <2>2, <2>3, <2>5
    <2>7. StoreStep(e, G, c) = [G EXCEPT ![at] = Data(B(c))]
      <3>1. StoreStep(e, G, c) = [G EXCEPT ![at] = Data([h \in 1 .. SectorSize |->
               IF (c - 1) * SectorSize + h - 1 \in DOMAIN new
               THEN new[(c - 1) * SectorSize + h - 1] ELSE Raw(G[at])[h]])]
        BY <1>1, <1>7, <2>2, Zenon DEF StoreStep
      <3>2. B(c) = [h \in 1 .. SectorSize |->
               IF (c - 1) * SectorSize + h - 1 \in DOMAIN new
               THEN new[(c - 1) * SectorSize + h - 1] ELSE Raw(G[at])[h]]
        BY <2>2, <2>6, Zenon DEF B
      <3>3. QED
        BY <3>1, <3>2, Zenon
    <2>8. PICK x : x = Data(B(c))
      OBVIOUS
    <2>9. ASSUME NEW j \in Sector PROVE F[S][j] = [G EXCEPT ![at] = x][j]
      <3>1. CASE j = at
        <4>1. (CHOOSE k \in S : blocks[k] = j) = c
          BY <2>2, <2>5, <3>1
        <4>2. F[S][j] = x
          BY <2>2, <2>4, <2>8, <3>1, <4>1
        <4>3. [G EXCEPT ![at] = x][j] = x
          BY <2>3, <3>1
        <4>4. QED
          BY <4>2, <4>3
      <3>2. CASE j # at /\ \E k \in S : blocks[k] = j
        <4>1. PICK k \in S : blocks[k] = j
          BY <3>2
        <4>2. k # c /\ (CHOOSE h \in S : blocks[h] = j) = k /\ (CHOOSE h \in S \ {c} : blocks[h] = j) = k
          BY <2>2, <2>5, <3>2, <4>1
        <4>3. F[S][j] = Data(B(k))
          BY <2>4, <3>2, <4>2
        <4>4. G[j] = Data(B(k))
          BY <2>3, <4>1, <4>2
        <4>5. [G EXCEPT ![at] = x][j] = G[j]
          BY <2>3, <3>2
        <4>6. QED
          BY <4>3, <4>4, <4>5
      <3>3. CASE j # at /\ ~\E k \in S : blocks[k] = j
        <4>1. F[S][j] = d[j] /\ G[j] = d[j]
          BY <2>3, <2>4, <3>3
        <4>2. [G EXCEPT ![at] = x][j] = G[j]
          BY <2>3, <3>3
        <4>3. QED
          BY <4>1, <4>2
      <3>4. QED
        BY <3>1, <3>2, <3>3
    <2>10. F[S] = [G EXCEPT ![at] = x]
      <3>1. F[S] = [j \in Sector |-> F[S][j]]
        BY <2>4
      <3>2. [G EXCEPT ![at] = x] = [j \in Sector |-> [G EXCEPT ![at] = x][j]]
        BY <2>3
      <3> HIDE DEF F
      <3>3. QED
        BY <2>9, <3>1, <3>2
    <2>11. QED
      BY <2>1, <2>7, <2>8, <2>10
  <1>15. r = F[T]
    <2>1. F = [S \in SUBSET T |-> F[S]]
      OBVIOUS
    <2> HIDE DEF F, T
    <2>2. StoreFold!Unfolds(e, d, T, F)
      <3>1. \A S \in SUBSET T : \A c \in S : F[S] = StoreStep(e, F[S \ {c}], c)
        BY <1>14
      <3>2. QED
        BY <1>13, <2>1, <3>1, Zenon DEF StoreFold!Unfolds
    <2>3. IsFiniteSet(T)
      BY <1>12
    <2>4. StoreFold!FoldedSet(e, d, T) = F[T]
      BY <2>2, <2>3, StoreFoldIs
    <2>5. QED
      BY <1>8, <2>4
  <1>16. r = [j \in Sector |-> IF \E k \in T : blocks[k] = j
                THEN Data(B(CHOOSE k \in T : blocks[k] = j)) ELSE d[j]]
    <2>1. T \in SUBSET T
      OBVIOUS
    <2> HIDE DEF T, B
    <2>2. QED
      BY <1>15, <2>1
  <1>17. \A k \in T : k \in 1 .. m
    BY <1>12
  <1>18. ASSUME NEW k \in T PROVE r[blocks[k]] = Data(B(k))
    <2>1. (CHOOSE h \in T : blocks[h] = blocks[k]) = k
      BY <1>10, <1>17
    <2>2. blocks[k] \in Sector
      BY <1>9, <1>17
    <2> HIDE DEF B, T
    <2>3. QED
      BY <1>16, <2>1, <2>2
  <1>19. \A j \in Sector : (\A k \in T : blocks[k] # j) => r[j] = d[j]
    BY <1>16
  <1>20. r \in [Sector -> Record]
    <2>1. DOMAIN r = Sector /\ r = [j \in Sector |-> r[j]]
      BY <1>16
    <2> HIDE DEF B
    <2>2. ASSUME NEW j \in Sector PROVE r[j] \in Record
      <3>1. CASE \E k \in T : blocks[k] = j
        <4>1. PICK k \in T : blocks[k] = j
          BY <3>1
        <4> HIDE DEF T
        <4>2. QED
          BY <1>11, <1>17, <1>18, <4>1
      <3>2. CASE \A k \in T : blocks[k] # j
        BY <1>19, <3>2
      <3>3. QED
        BY <3>1, <3>2
    <2>3. QED
      BY <2>1, <2>2
  <1>21. ASSUME NEW k \in 1 .. m, NEW h \in 1 .. SectorSize
         PROVE  Raw(r[blocks[k]])[h] = byte(k, h)
    <2>1. CASE k \in T
      <3>1. Raw(r[blocks[k]]) = B(k)
        BY <1>11, <1>18, <2>1
      <3>2. QED
        BY <3>1
    <2>2. CASE k \notin T
      <3>1. r[blocks[k]] = d[blocks[k]]
        <4>1. \A j \in T : blocks[j] # blocks[k]
          BY <1>10, <1>17, <2>2
        <4> HIDE DEF T
        <4>2. QED
          BY <1>9, <1>19, <4>1
      <3>2. place(k, h) \div SectorSize = k - 1
        <4>1. PICK P \in Nat \ {0} : P = SectorSize
          BY FilesAssumption
        <4>2. k - 1 \in Nat
          OBVIOUS
        <4>3. QED
          BY <4>1, <4>2, Quotient
      <3>3. place(k, h) \notin DOMAIN new
        BY <2>2, <3>2
      <3>4. byte(k, h) = Raw(d[blocks[k]])[h]
        <4> HIDE DEF place
        <4> QED BY <3>3
      <3>5. QED
        BY <3>1, <3>4
    <2>3. QED
      BY <2>1, <2>2
  <1>22. ASSUME NEW k \in 1 .. m, NEW h \in 1 .. SectorSize
         PROVE  byte(k, h) = NewByte(d, blocks, p, bytes, k, h)
    <2>1. NewByte(d, blocks, p, bytes, k, h) =
            IF place(k, h) \in p .. p + l - 1 THEN bytes[place(k, h) - p + 1] ELSE Raw(d[blocks[k]])[h]
      BY <1>3 DEF NewByte
    <2> HIDE DEF place
    <2>2. QED
      BY <1>5, <2>1
  <1> HIDE DEF T, byte
  <1>23. \A j \in Sector : (\A k \in 1 .. m : blocks[k] # j) => r[j] = d[j]
    BY <1>17, <1>19
  <1>24. \A k \in 1 .. m, h \in 1 .. SectorSize :
           Raw(r[blocks[k]])[h] = NewByte(d, blocks, p, bytes, k, h)
    BY <1>21, <1>22
  <1>25. QED
    BY <1>1, <1>2, <1>20, <1>23, <1>24 DEF Writes

(* An inode that is extended.                                              *)
Grows(x, new, n, blocks) ==
  /\ Extends(x.blocks, blocks, new) /\ Injective(x.blocks) /\ BlocksOf(x) \cap new = {}
  /\ SectorsFor(n) <= Len(blocks)
Grown(x, new, n, blocks, y) ==
  /\ y \in InodeRec /\ y.len = n /\ y.blocks = blocks
  /\ BlocksOf(y) \subseteq BlocksOf(x) \cup new /\ Injective(y.blocks)

(* The inode that inode_reserve extends.                                   *)
LEMMA ExtendedInode ==
  ASSUME NEW x \in InodeRec, NEW blocks, NEW new \in SUBSET Sector, NEW n \in 0 .. MaxLength,
         Grows(x, new, n, blocks)
  PROVE  Grown(x, new, n, blocks, Inode(n, blocks))
  <1> DEFINE y == Inode(n, blocks)
  <1> USE DEF Grows
  <1>1. PICK m \in Nat : m = Len(x.blocks)
    BY InodeFields
  <1>2. PICK c \in Nat : c = Len(blocks)
    BY DEF Extends
  <1>3. /\ blocks \in Seq(Sector)
        /\ \A k \in 1 .. m : blocks[k] = x.blocks[k]
        /\ \A k \in m + 1 .. c : blocks[k] \in new
        /\ \A j, k \in m + 1 .. c : blocks[j] = blocks[k] => j = k
    BY <1>1, <1>2 DEF Extends
  <1>4. y \in InodeRec /\ y.len = n /\ y.blocks = blocks
    BY <1>3, InodeIs
  <1>5. \A k \in 1 .. m : blocks[k] \in BlocksOf(x)
    BY <1>1, <1>3 DEF BlocksOf
  <1>6. \A k \in 1 .. c : k \in 1 .. m \/ k \in m + 1 .. c
    OBVIOUS
  <1>7. BlocksOf(y) \subseteq BlocksOf(x) \cup new
    BY <1>2, <1>3, <1>4, <1>5, <1>6 DEF BlocksOf
  <1>8. \A j, k \in 1 .. m : blocks[j] = blocks[k] => j = k
    BY <1>1, <1>3 DEF Injective
  <1>9. ASSUME NEW j \in 1 .. c, NEW k \in 1 .. c, blocks[j] = blocks[k] PROVE j = k
    BY <1>3, <1>5, <1>6, <1>8, <1>9
  <1>10. Injective(y.blocks)
    BY <1>2, <1>4, <1>9 DEF Injective
  <1>11. QED
    BY <1>4, <1>7, <1>10 DEF Grown

\* e is d with blank sectors in `new`.
Blanked(d, x, new, e) ==
  (\A b \in BlocksOf(x) : e[b] = d[b]) /\ (\A b \in new : e[b] = Blank)

(* An inode that is extended by zeros still ends in zeros.                 *)
LEMMA ExtendedEnd ==
  ASSUME NEW x \in InodeRec, NEW blocks, NEW new \in SUBSET Sector, Extends(x.blocks, blocks, new),
         NEW y, y.blocks = blocks, NEW n \in Nat, y.len = n, x.len <= n,
         NEW d, ZeroEnd(d, x), NEW e, Blanked(d, x, new, e)
  PROVE  ZeroEnd(e, y)
  <1>1. PICK m \in Nat : m = Len(x.blocks)
    BY InodeFields
  <1>2. PICK c \in Nat : c = Len(blocks)
    BY DEF Extends
  <1>3. /\ \A k \in 1 .. m : blocks[k] = x.blocks[k]
        /\ \A k \in m + 1 .. c : blocks[k] \in new
    BY <1>1, <1>2 DEF Extends
  <1>4. SUFFICES ASSUME NEW k \in 1 .. c, NEW h \in 1 .. SectorSize, Place(k, h) >= n
                 PROVE  Raw(e[blocks[k]])[h] = Nul
    BY <1>2 DEF ZeroEnd
  <1>5. CASE k \in 1 .. m
    <2>1. blocks[k] = x.blocks[k] /\ e[blocks[k]] = d[blocks[k]]
      BY <1>1, <1>3, <1>5 DEF BlocksOf, Blanked
    <2>2. Place(k, h) >= x.len
      <3>1. PICK q \in Int : q = Place(k, h)
        BY FilesAssumption DEF Place
      <3>2. PICK l \in Nat : l = x.len
        BY InodeFields
      <3>3. q >= n /\ l <= n
        BY <1>4, <3>1, <3>2
      <3>4. QED
        BY <3>1, <3>2, <3>3
    <2>3. Raw(d[x.blocks[k]])[h] = Nul
      BY <1>1, <1>5, <2>2 DEF ZeroEnd
    <2>4. QED
      BY <2>1, <2>3
  <1>6. CASE k \in m + 1 .. c
    <2>1. e[blocks[k]] = Blank
      BY <1>3, <1>6 DEF Blanked
    <2>2. QED
      BY <2>1, BlankFacts
  <1>7. QED
    BY <1>5, <1>6

(* A write that ends in two zeros leaves the end of the file zero.         *)
LEMMA WrittenEnd ==
  ASSUME NEW d, NEW r, NEW x, NEW n \in Nat, x.len = n, ZeroEnd(d, x),
         NEW p \in Nat, NEW bytes \in Seq(Byte), Writes(d, x.blocks, p, bytes, r),
         p + Len(bytes) <= n, Len(bytes) > 0 => bytes[Len(bytes)] = Nul
  PROVE  ZeroEnd(r, x)
  <1>1. SUFFICES ASSUME NEW k \in 1 .. Len(x.blocks), NEW h \in 1 .. SectorSize, Place(k, h) >= n
                 PROVE  Raw(r[x.blocks[k]])[h] = Nul
    BY DEF ZeroEnd
  <1>2. PICK l \in Nat : l = Len(bytes)
    OBVIOUS
  <1>3. PICK q : q = (k - 1) * SectorSize + h - 1
    OBVIOUS
  <1>4. q \in Int /\ q + 1 >= n
    <2>1. PICK a : a = (k - 1) * SectorSize
      OBVIOUS
    <2>2. a \in Int
      BY <2>1, FilesAssumption
    <2>3. a + h >= n /\ q = a + h - 1
      BY <1>1, <1>3, <2>1 DEF Place
    <2>4. QED
      BY <2>2, <2>3
  <1>5. Raw(r[x.blocks[k]])[h] =
          IF q \in p .. p + l - 1 THEN bytes[q - p + 1] ELSE Raw(d[x.blocks[k]])[h]
    BY <1>2, <1>3 DEF Writes, NewByte
  <1>6. Raw(d[x.blocks[k]])[h] = Nul
    BY <1>1 DEF ZeroEnd
  <1>7. CASE q \in p .. p + l - 1
    <2>1. q - p + 1 = l /\ l > 0
      BY <1>2, <1>4, <1>7
    <2>2. QED
      BY <1>2, <1>5, <1>7, <2>1
  <1>8. QED
    BY <1>5, <1>6, <1>7

(* The bytes of an inode that is extended: zeros follow.                   *)
LEMMA ExtendedBytes ==
  ASSUME NEW x \in InodeRec, NEW blocks, NEW new \in SUBSET Sector, Extends(x.blocks, blocks, new),
         NEW y, y.blocks = blocks, NEW n \in Nat, SectorsFor(n) <= Len(blocks),
         NEW d, ZeroEnd(d, x), NEW e, Blanked(d, x, new, e), NEW q \in Nat, q < n
  PROVE  ByteAt(e, y, q) = IF q < x.len THEN ByteAt(d, x, q) ELSE Nul
  <1>1. PICK m \in Nat : m = Len(x.blocks)
    BY InodeFields
  <1>2. PICK c \in Nat : c = Len(blocks)
    BY DEF Extends
  <1>3. /\ \A k \in 1 .. m : blocks[k] = x.blocks[k]
        /\ \A k \in m + 1 .. c : blocks[k] \in new
    BY <1>1, <1>2 DEF Extends
  <1>4. PICK k \in Nat \ {0}, h \in 1 .. SectorSize :
          /\ k = (q \div SectorSize) + 1 /\ h = (q % SectorSize) + 1
          /\ k <= SectorsFor(n) /\ Place(k, h) = q + 1
    <2>1. PICK P \in Nat \ {0} : P = SectorSize
      BY FilesAssumption
    <2>2. PICK a \in Nat, r \in 0 .. P - 1 : a = q \div P /\ r = q % P /\ q = P * a + r
      BY Division
    <2>3. a + 1 \in 1 .. SectorsFor(n) /\ r + 1 \in 1 .. P
      BY <2>1, <2>2, SectorWithin
    <2>4. Place(a + 1, r + 1) = q + 1
      BY <2>1, <2>2 DEF Place
    <2>5. a + 1 \in Nat \ {0} /\ a + 1 <= SectorsFor(n)
      BY <2>3, SectorsForType
    <2>6. QED
      BY <2>1, <2>2, <2>3, <2>4, <2>5
  <1>5. k \in 1 .. c
    <2>1. SectorsFor(n) \in Nat
      BY SectorsForType
    <2>2. QED
      BY <1>2, <1>4, <2>1
  <1>6. ByteAt(e, y, q) = Raw(e[blocks[k]])[h]
    BY <1>4, Zenon DEF ByteAt
  <1>7. PICK len \in Nat : len = x.len
    BY InodeFields
  <1>8. CASE k \in 1 .. m
    <2>1. blocks[k] = x.blocks[k] /\ e[blocks[k]] = d[blocks[k]]
      BY <1>1, <1>3, <1>8 DEF BlocksOf, Blanked
    <2>2. ByteAt(d, x, q) = Raw(d[x.blocks[k]])[h]
      BY <1>4, Zenon DEF ByteAt
    <2>3. q >= len => Raw(d[x.blocks[k]])[h] = Nul
      <3>1. q >= len => Place(k, h) >= x.len
        BY <1>4, <1>7
      <3>2. QED
        BY <1>1, <1>8, <3>1 DEF ZeroEnd
    <2>4. QED
      BY <1>6, <1>7, <2>1, <2>2, <2>3
  <1>9. CASE k \in m + 1 .. c
    <2>1. e[blocks[k]] = Blank
      BY <1>3, <1>9 DEF Blanked
    <2>2. ~(q < len)
      <3>1. SUFFICES ASSUME q < len PROVE FALSE
        OBVIOUS
      <3>2. k \in 1 .. SectorsFor(len)
        BY <1>4, <3>1, SectorWithin
      <3>3. SectorsFor(len) <= m /\ SectorsFor(len) \in Nat
        BY <1>1, <1>7, InodeFields, SectorsForType
      <3>4. QED
        BY <1>9, <3>2, <3>3
    <2>3. QED
      BY <1>6, <1>7, <2>1, <2>2, BlankFacts
  <1>10. QED
    BY <1>5, <1>8, <1>9

\* The byte at q of x on disk r, which is d with `bytes` written at p.
Overlaid(d, x, p, bytes, r, q) ==
  ByteAt(r, x, q) =
    IF q \in p .. p + Len(bytes) - 1 THEN bytes[q - p + 1] ELSE ByteAt(d, x, q)

(* The bytes of an inode that is written to.                               *)
LEMMA WrittenBytes ==
  ASSUME NEW d, NEW r, NEW x, NEW n \in Nat, SectorsFor(n) <= Len(x.blocks), x.blocks \in Seq(Sector),
         NEW p \in Nat, NEW bytes \in Seq(Byte), Writes(d, x.blocks, p, bytes, r),
         NEW q \in Nat, q < n
  PROVE  Overlaid(d, x, p, bytes, r, q)
  <1>1. PICK c \in Nat : c = Len(x.blocks)
    OBVIOUS
  <1>2. PICK k \in Nat \ {0}, h \in 1 .. SectorSize :
          /\ k = (q \div SectorSize) + 1 /\ h = (q % SectorSize) + 1
          /\ k <= SectorsFor(n) /\ (k - 1) * SectorSize + h - 1 = q
    <2>1. PICK P \in Nat \ {0} : P = SectorSize
      BY FilesAssumption
    <2>2. PICK a \in Nat, z \in 0 .. P - 1 : a = q \div P /\ z = q % P /\ q = P * a + z
      BY Division
    <2>3. a + 1 \in 1 .. SectorsFor(n) /\ z + 1 \in 1 .. P
      BY <2>1, <2>2, SectorWithin
    <2>4. ((a + 1) - 1) * P + (z + 1) - 1 = q
      BY <2>2
    <2>5. a + 1 \in Nat \ {0} /\ a + 1 <= SectorsFor(n)
      BY <2>3, SectorsForType
    <2>6. QED
      BY <2>1, <2>2, <2>3, <2>4, <2>5
  <1>3. k \in 1 .. c
    <2>1. SectorsFor(n) \in Nat
      BY SectorsForType
    <2>2. QED
      BY <1>1, <1>2, <2>1
  <1>4. ByteAt(r, x, q) = Raw(r[x.blocks[k]])[h]
    BY <1>2, Zenon DEF ByteAt
  <1>5. ByteAt(d, x, q) = Raw(d[x.blocks[k]])[h]
    BY <1>2, Zenon DEF ByteAt
  <1>6. Raw(r[x.blocks[k]])[h] = NewByte(d, x.blocks, p, bytes, k, h)
    BY <1>1, <1>3 DEF Writes
  <1>7. QED
    BY <1>2, <1>4, <1>5, <1>6, Zenon DEF NewByte, Overlaid

\* The byte at q of x on disk d, once `bytes` are written at p.
ByteAfter(d, x, p, bytes, q) ==
  IF q \in p .. p + Len(bytes) - 1 THEN bytes[q - p + 1]
  ELSE IF q < x.len THEN ByteAt(d, x, q) ELSE Nul

\* What writing leaves in f, whose inode is y then: what was there, or all that was written.
Leaves(s, f, p, bytes, done, y) ==
  LET x == Mem(s, f)
      end == p + Len(bytes)
  IN \/ /\ done.written = 0 /\ y.len = x.len /\ x.len < end
        /\ \A q \in Nat : q < x.len => ByteAt(done.state.disk, y, q) = ByteAt(s.disk, x, q)
     \/ /\ done.written = Len(bytes) /\ y.len = (IF end <= x.len THEN x.len ELSE end)
        /\ end <= x.len => done.state.used = s.used
        /\ \A q \in Nat : q < y.len =>
             ByteAt(done.state.disk, y, q) = ByteAfter(s.disk, x, p, bytes, q)

\* What is written at a place a file may be written at.
Writable(s, f, p, bytes) ==
  /\ p + Len(bytes) <= MaxLength
  /\ Len(bytes) > 0 => bytes[Len(bytes)] = Nul
  /\ p + Len(bytes) = 0 => Mem(s, f).len = 0

(* inode_write_at keeps the invariant.                                     *)
LEMMA WriteAtIs ==
  ASSUME NEW s, Good(s), Clean(s), NEW f \in Files(s), NEW i, i = InodeOf(s, f),
         s.inodes[i] # NotOpen, NEW p \in Nat, NEW bytes \in Seq(Byte), Writable(s, f, p, bytes),
         NEW done, done = WriteAt(s, i, p, bytes)
  PROVE  /\ done.written \in Nat
         /\ \E y \in InodeRec : Rewrites(s, f, y, done.state) /\ Leaves(s, f, p, bytes, done, y)
  <1>1. i \in Sector \ System /\ s \in State /\ System \subseteq s.used
    BY MemFacts DEF Good
  <1>2. PICK x \in InodeRec : x = s.inodes[i] /\ x = Mem(s, f)
    BY MemFacts
  <1>3. /\ s.disk[i] \in InodeRec /\ Shrinks(s.disk[i], x)
    BY <1>2, MemFacts
  <1>4. f \in Kept(s) /\ i \in s.used
    BY DEF Clean, Kept
  <1>5. Own(s, f) = BlocksOf(x)
    BY <1>2 DEF Own
  <1>6. /\ BlocksOf(x) \subseteq s.used \ System /\ i \notin BlocksOf(x)
        /\ Injective(x.blocks) /\ ZeroEnd(s.disk, x)
    BY <1>2, <1>4, <1>5 DEF Good, Apart, Zeroed
  <1>7. PICK l \in Nat : l = Len(bytes)
    OBVIOUS
  <1>8. PICK end \in Nat : end = p + l /\ end \in 0 .. MaxLength
    BY <1>7 DEF Writable
  <1>9. PICK len \in Nat : len = x.len /\ len \in 0 .. MaxLength
    BY InodeFields
  <1>10. x.blocks \in Seq(Sector)
    BY InodeFields
  <1>11. PICK got : got = Reserve(s, x.blocks, end)
    OBVIOUS
  <1>22. PICK new \in SUBSET (Sector \ s.used) : Takes(s, x.blocks, end, got, new)
    BY <1>1, <1>10, <1>11, ReserveFacts
  <1>12. /\ Reserved(s, new, got.state) /\ Extends(x.blocks, got.blocks, new)
         /\ got.enough => SectorsFor(end) <= Len(got.blocks)
         /\ SectorsFor(end) <= Len(x.blocks) => got.enough /\ new = {}
         /\ new \in SUBSET (Sector \ s.used)
    BY <1>22 DEF Takes
  <1>13. PICK g : g = got.state
    OBVIOUS
  <1>14. /\ g \in State /\ g.used = s.used \cup new
         /\ g.dir = s.dir /\ g.inodes = s.inodes /\ g.table = s.table
         /\ \A j \in new : g.disk[j] = Blank
         /\ \A j \in Sector \ new : g.disk[j] = s.disk[j]
    BY <1>12, <1>13 DEF Reserved
  <1>15. BlocksOf(x) \cap new = {} /\ i \notin new /\ new \in SUBSET Sector
    BY <1>4, <1>6, <1>12
  <1>16. \A j \in s.used : j \in Sector /\ g.disk[j] = s.disk[j]
    BY <1>1, <1>12, <1>14, StateFields
  <1>21. ~got.enough => end > 0
    <2>1. SUFFICES ASSUME ~got.enough, end = 0 PROVE FALSE
      BY <1>8
    <2>2. len = 0
      BY <1>2, <1>7, <1>8, <1>9, <2>1 DEF Writable
    <2>3. SectorsFor(end) <= Len(x.blocks)
      BY <1>9, <2>1, <2>2, InodeFields
    <2>4. QED
      BY <1>12, <2>1, <2>3
  <1>17. CASE end - 1 \in 0 .. len - 1
    <2>1. done = [state |-> [s EXCEPT !.disk = Stored(@, x, p, bytes)], written |-> Len(bytes)]
      BY <1>2, <1>7, <1>8, <1>9, <1>17 DEF WriteAt
    <2>2. PICK r : r = Stored(s.disk, x, p, bytes)
      OBVIOUS
    <2>3. Writes(s.disk, x.blocks, p, bytes, r)
      BY <1>1, <1>6, <1>10, <2>2, StoredIs, StateFields
    <2>4. r \in [Sector -> Record]
      BY <2>3 DEF Writes
    <2>5. PICK t : t = PutDisk(s, r)
      OBVIOUS
    <2>6. done = [state |-> t, written |-> Len(bytes)]
      BY <2>1, <2>2, <2>5 DEF PutDisk
    <2>7. done.state = t /\ done.written = Len(bytes)
      BY <2>6
    <2>8. /\ t \in State /\ t.disk = r /\ t.used = s.used
          /\ t.dir = s.dir /\ t.inodes = s.inodes /\ t.table = s.table
      BY <1>1, <2>4, <2>5, WithDisk
    <2>9. ZeroEnd(r, x)
      <3>1. p + Len(bytes) <= len
        BY <1>7, <1>8, <1>17
      <3>2. QED
        BY <1>6, <1>9, <2>3, <3>1, WrittenEnd DEF Writable
    <2>10. \A j \in Sector : j \notin BlocksOf(x) => r[j] = s.disk[j]
      BY <2>3 DEF Writes, BlocksOf
    <2>11. Rewrites(s, f, x, t)
      <3>1. \A j \in Sector \ t.used : t.disk[j] = s.disk[j]
        BY <1>6, <2>8, <2>10
      <3>2. Begins(Mem(s, f), x)
        BY <1>2 DEF Begins
      <3>3. QED
        BY <1>1, <1>2, <1>3, <1>5, <1>6, <1>16, <2>8, <2>9, <2>10, <3>1, <3>2 DEF Rewrites
    <2>12. Leaves(s, f, p, bytes, done, x)
      <3>1. ASSUME NEW q \in Nat, q < x.len PROVE ByteAt(r, x, q) = ByteAfter(s.disk, x, p, bytes, q)
        <4>1. SectorsFor(x.len) <= Len(x.blocks)
          BY InodeFields
        <4>2. Overlaid(s.disk, x, p, bytes, r, q)
          BY <1>9, <1>10, <2>3, <3>1, <4>1, WrittenBytes
        <4>3. QED
          BY <3>1, <4>2, Zenon DEF ByteAfter, Overlaid
      <3>2. end <= len
        BY <1>17
      <3>3. QED
        BY <1>2, <1>7, <1>8, <1>9, <2>7, <2>8, <3>1, <3>2 DEF Leaves
    <2>13. QED
      BY <1>7, <2>7, <2>11, <2>12
  <1>18. CASE end - 1 \notin 0 .. len - 1 /\ ~got.enough
    <2>1. PICK y : y = Inode(len, got.blocks)
      OBVIOUS
    <2>2. done = [state |-> [g EXCEPT !.inodes[i] = y], written |-> 0]
      BY <1>2, <1>7, <1>8, <1>9, <1>11, <1>13, <1>18, <2>1, Zenon DEF WriteAt
    <2>3. SectorsFor(len) <= Len(got.blocks) /\ Len(x.blocks) <= Len(got.blocks)
      <3>1. SectorsFor(len) <= Len(x.blocks) /\ Len(x.blocks) \in Nat /\ SectorsFor(len) \in Nat
        BY <1>9, InodeFields, SectorsForType
      <3>2. Len(x.blocks) <= Len(got.blocks) /\ Len(got.blocks) \in Nat
        BY <1>12 DEF Extends
      <3>3. QED
        BY <3>1, <3>2
    <2>4. /\ y \in InodeRec /\ y.len = len /\ y.blocks = got.blocks
          /\ BlocksOf(y) \subseteq BlocksOf(x) \cup new /\ Injective(y.blocks)
      <3>1. PICK blocks : blocks = got.blocks
        OBVIOUS
      <3>2. Extends(x.blocks, blocks, new) /\ SectorsFor(len) <= Len(blocks) /\ y = Inode(len, blocks)
        BY <1>12, <2>1, <2>3, <3>1
      <3>3. QED
        <4>1. Grows(x, new, len, blocks)
          BY <1>6, <1>15, <3>2 DEF Grows
        <4>2. Grown(x, new, len, blocks, y)
          BY <1>9, <1>15, <3>2, <4>1, ExtendedInode
        <4>3. QED
          BY <3>1, <4>2 DEF Grown
    <2>5. PICK v : v = [g.inodes EXCEPT ![i] = y]
      OBVIOUS
    <2>6. /\ v \in [Sector -> Record \cup {NotOpen}] /\ v[i] = y
          /\ \A j \in Sector : j # i => v[j] = g.inodes[j]
      <3>1. g.inodes \in [Sector -> Record \cup {NotOpen}] /\ y \in Record
        BY <1>14, <2>4, StateFields DEF Record
      <3>2. QED
        BY <1>1, <2>5, <3>1
    <2>7. PICK t : t = PutInodes(g, v)
      OBVIOUS
    <2>8. done = [state |-> t, written |-> 0]
      BY <2>2, <2>5, <2>7 DEF PutInodes
    <2>9. done.state = t /\ done.written = 0
      BY <2>8
    <2>10. /\ t \in State /\ t.inodes = v /\ t.used = g.used
           /\ t.disk = g.disk /\ t.dir = g.dir /\ t.table = g.table
      BY <1>14, <2>6, <2>7, WithInodes
    <2>11. ZeroEnd(t.disk, y)
      <3>1. \A b \in BlocksOf(x) : t.disk[b] = s.disk[b]
        BY <1>6, <1>16, <2>10
      <3>2. \A b \in new : t.disk[b] = Blank
        BY <1>14, <2>10
      <3>3. x.len <= len
        BY <1>9
      <3>4. Extends(x.blocks, y.blocks, new)
        BY <1>12, <2>4
      <3>5. Blanked(s.disk, x, new, t.disk)
        BY <3>1, <3>2 DEF Blanked
      <3>6. QED
        BY <1>6, <1>9, <1>15, <2>4, <3>3, <3>4, <3>5, ExtendedEnd, Zenon
    <2>12. Shrinks(t.disk[i], y)
      <3>1. t.disk[i] = s.disk[i]
        BY <1>4, <1>16, <2>10
      <3>2. Shrinks(x, y)
        BY <1>9, <1>12, <2>4 DEF Shrinks, Extends
      <3>3. PICK z \in InodeRec : z = s.disk[i]
        BY <1>3
      <3>4. Len(z.blocks) \in Nat /\ Len(x.blocks) \in Nat /\ Len(y.blocks) \in Nat
        BY <2>4, InodeFields
      <3>5. Shrinks(z, y)
        <4>1. PICK a \in Nat : a = Len(z.blocks)
          BY <3>4
        <4>2. PICK b \in Nat : b = Len(x.blocks)
          BY <3>4
        <4>3. z.len = x.len /\ a <= b /\ \A k \in 1 .. a : z.blocks[k] = x.blocks[k]
          BY <1>3, <3>3, <4>1, <4>2 DEF Shrinks
        <4>4. x.len = y.len /\ b <= Len(y.blocks) /\ \A k \in 1 .. b : x.blocks[k] = y.blocks[k]
          BY <3>2, <4>2 DEF Shrinks
        <4>5. \A k \in 1 .. a : k \in 1 .. b
          BY <4>3
        <4>6. a <= Len(y.blocks)
          BY <3>4, <4>3, <4>4
        <4>7. QED
          BY <4>1, <4>3, <4>4, <4>5, <4>6, Zenon DEF Shrinks
      <3>6. QED
        BY <3>1, <3>3, <3>5
    <2>13. Rewrites(s, f, y, t)
      <3>1. \A j \in Sector \ {i} : t.inodes[j] = s.inodes[j]
        BY <1>14, <2>6, <2>10
      <3>2. t.inodes[i] = y /\ t.disk[i] \in InodeRec
        BY <1>3, <1>4, <1>16, <2>6, <2>10
      <3>3. \A j \in s.used : t.disk[j] = s.disk[j]
        BY <1>16, <2>10
      <3>4. BlocksOf(y) \subseteq Own(s, f) \cup (t.used \ s.used)
        BY <1>5, <1>12, <1>14, <2>4, <2>10
      <3>5. t.dir = s.dir /\ t.table = s.table /\ s.used \subseteq t.used
        BY <1>14, <2>10
      <3>6. \A j \in Sector \ t.used : t.disk[j] = s.disk[j]
        BY <1>14, <2>10
      <3>7. Begins(Mem(s, f), y)
        BY <1>2, <1>12, <2>4 DEF Begins, Extends
      <3>8. QED
        BY <2>4, <2>10, <2>11, <2>12, <3>1, <3>2, <3>3, <3>4, <3>5, <3>6, <3>7 DEF Rewrites
    <2>14. Leaves(s, f, p, bytes, done, y)
      <3>1. ASSUME NEW q \in Nat, q < len PROVE ByteAt(t.disk, y, q) = ByteAt(s.disk, x, q)
        <4>1. \A b \in BlocksOf(x) : t.disk[b] = s.disk[b]
          BY <1>6, <1>16, <2>10
        <4>2. \A b \in new : t.disk[b] = Blank
          BY <1>14, <2>10
        <4>3. Blanked(s.disk, x, new, t.disk)
          BY <4>1, <4>2 DEF Blanked
        <4>4. PICK blocks : blocks = y.blocks
          OBVIOUS
        <4>5. Extends(x.blocks, blocks, new) /\ SectorsFor(len) <= Len(blocks)
          BY <1>12, <2>3, <2>4, <4>4
        <4>6. ByteAt(t.disk, y, q) = IF q < x.len THEN ByteAt(s.disk, x, q) ELSE Nul
          BY <1>6, <1>9, <1>15, <3>1, <4>3, <4>4, <4>5, ExtendedBytes
        <4>7. QED
          BY <1>9, <3>1, <4>6
      <3>2. len < end
        BY <1>8, <1>9, <1>18, <1>21
      <3>3. QED
        BY <1>2, <1>7, <1>8, <1>9, <2>4, <2>9, <3>1, <3>2 DEF Leaves
    <2>15. QED
      BY <2>4, <2>9, <2>13, <2>14
  <1>19. CASE end - 1 \notin 0 .. len - 1 /\ got.enough
    <2>1. PICK blocks : blocks = got.blocks
      OBVIOUS
    <2>2. Extends(x.blocks, blocks, new) /\ SectorsFor(end) <= Len(blocks)
      BY <1>12, <1>19, <2>1
    <2>3. PICK y : y = Inode(end, blocks)
      OBVIOUS
    <2>4. /\ y \in InodeRec /\ y.len = end /\ y.blocks = blocks
          /\ BlocksOf(y) \subseteq BlocksOf(x) \cup new /\ Injective(y.blocks)
      <3>1. Grows(x, new, end, blocks)
        BY <1>6, <1>15, <2>2 DEF Grows
      <3>2. Grown(x, new, end, blocks, y)
        BY <1>8, <1>15, <2>3, <3>1, ExtendedInode
      <3>3. QED
        BY <3>2 DEF Grown
    <2>5. PICK v : v = [g.inodes EXCEPT ![i] = y]
      OBVIOUS
    <2>6. /\ v \in [Sector -> Record \cup {NotOpen}] /\ v[i] = y
          /\ \A j \in Sector : j # i => v[j] = g.inodes[j]
      <3>1. g.inodes \in [Sector -> Record \cup {NotOpen}] /\ y \in Record
        BY <1>14, <2>4, StateFields DEF Record
      <3>2. QED
        BY <1>1, <2>5, <3>1
    <2>7. PICK d : d = [g.disk EXCEPT ![i] = y]
      OBVIOUS
    <2>8. /\ d \in [Sector -> Record] /\ d[i] = y
          /\ \A j \in Sector : j # i => d[j] = g.disk[j]
      <3>1. g.disk \in [Sector -> Record] /\ y \in Record
        BY <1>14, <2>4, StateFields DEF Record
      <3>2. QED
        BY <1>1, <2>7, <3>1
    <2>9. PICK r : r = Stored(d, y, p, bytes)
      OBVIOUS
    <2>10. Writes(d, y.blocks, p, bytes, r)
      <3>1. y.blocks \in Seq(Sector)
        BY <2>4, InodeFields
      <3>2. QED
        BY <2>4, <2>8, <2>9, <3>1, StoredIs
    <2>11. r \in [Sector -> Record] /\ \A j \in Sector : j \notin BlocksOf(y) => r[j] = d[j]
      BY <2>10 DEF Writes, BlocksOf
    <2>12. PICK m : m = PutInodes(g, v)
      OBVIOUS
    <2>13. /\ m \in State /\ m.inodes = v /\ m.used = g.used
           /\ m.disk = g.disk /\ m.dir = g.dir /\ m.table = g.table
      BY <1>14, <2>6, <2>12, WithInodes
    <2>14. PICK t : t = PutDisk(m, r)
      OBVIOUS
    <2>15. /\ t \in State /\ t.disk = r /\ t.used = m.used
           /\ t.dir = m.dir /\ t.inodes = m.inodes /\ t.table = m.table
      BY <2>11, <2>13, <2>14, WithDisk
    <2>16. done = [state |-> t, written |-> l]
      <3>1. done = [state |-> [[g EXCEPT !.inodes[i] = y, !.disk[i] = y]
                                 EXCEPT !.disk = Stored(@, y, p, bytes)], written |-> l]
        BY <1>2, <1>7, <1>8, <1>9, <1>11, <1>13, <1>19, <2>1, <2>3, Zenon DEF WriteAt
      <3>2. [g EXCEPT !.inodes[i] = y, !.disk[i] = y] = [m EXCEPT !.disk = d]
        BY <1>14, <2>5, <2>7, <2>12 DEF State, PutInodes
      <3>3. PICK b : b = PutDisk(m, d)
        OBVIOUS
      <3>4. b \in State /\ b.disk = d
        BY <2>8, <2>13, <3>3, WithDisk
      <3>5. [b EXCEPT !.disk = Stored(@, y, p, bytes)] = [b EXCEPT !.disk = r]
        BY <2>9, <3>4
      <3>6. [b EXCEPT !.disk = r] = t
        BY <2>13, <2>14, <3>3 DEF State, PutDisk
      <3>7. QED
        BY <3>1, <3>2, <3>3, <3>5, <3>6, Zenon DEF PutDisk
    <2>17. done.state = t /\ done.written = l
      BY <2>16
    <2>18. ZeroEnd(d, y)
      <3>1. \A b \in BlocksOf(x) : d[b] = s.disk[b]
        BY <1>6, <1>16, <2>8
      <3>2. \A b \in new : d[b] = Blank
        BY <1>14, <1>15, <2>8
      <3>3. x.len <= end
        <4>1. CASE end = 0
          BY <1>2, <1>7, <1>8, <4>1 DEF Writable
        <4>2. CASE end > 0
          BY <1>9, <1>19, <4>2
        <4>3. QED
          BY <4>1, <4>2
      <3>4. Extends(x.blocks, y.blocks, new)
        BY <2>2, <2>4
      <3>5. Blanked(s.disk, x, new, d)
        BY <3>1, <3>2 DEF Blanked
      <3>6. QED
        BY <1>6, <1>8, <1>15, <2>4, <3>3, <3>4, <3>5, ExtendedEnd, Zenon
    <2>19. ZeroEnd(r, y)
      <3>1. p + Len(bytes) <= end
        BY <1>7, <1>8
      <3>2. QED
        BY <2>4, <2>10, <2>18, <3>1, WrittenEnd DEF Writable
    <2>20. Rewrites(s, f, y, t)
      <3>1. \A j \in Sector \ {i} : t.inodes[j] = s.inodes[j]
        BY <1>14, <2>6, <2>13, <2>15
      <3>2. t.inodes[i] = y /\ t.disk[i] = y
        BY <1>1, <1>6, <1>15, <2>4, <2>6, <2>8, <2>11, <2>13, <2>15
      <3>3. ASSUME NEW j \in s.used \ ({i} \cup Own(s, f)) PROVE t.disk[j] = s.disk[j]
        <4>1. j \in Sector /\ j # i /\ j \notin BlocksOf(y)
          BY <1>5, <1>16, <2>4
        <4>2. QED
          BY <1>16, <2>8, <2>11, <2>15, <4>1
      <3>4. BlocksOf(y) \subseteq Own(s, f) \cup (t.used \ s.used)
        BY <1>5, <1>14, <2>4, <2>13, <2>15
      <3>5. t.dir = s.dir /\ t.table = s.table /\ s.used \subseteq t.used
        BY <1>14, <2>13, <2>15
      <3>6. Shrinks(t.disk[i], y) /\ t.disk[i] \in InodeRec
        BY <2>4, <3>2, ShrinksSelf
      <3>7. ASSUME NEW j \in Sector \ t.used PROVE t.disk[j] = s.disk[j]
        <4>1. j \notin s.used /\ j \notin new
          BY <1>14, <2>13, <2>15
        <4>2. j # i /\ j \notin BlocksOf(y)
          BY <1>4, <1>6, <2>4, <4>1
        <4>3. QED
          BY <1>14, <2>8, <2>11, <2>15, <4>1, <4>2
      <3>8. Begins(Mem(s, f), y)
        BY <1>2, <2>2, <2>4 DEF Begins, Extends
      <3>9. QED
        BY <1>1, <2>4, <2>15, <2>19, <3>1, <3>2, <3>3, <3>4, <3>5, <3>6, <3>7, <3>8 DEF Rewrites
    <2>22. Leaves(s, f, p, bytes, done, y)
      <3>0. end = 0 \/ len < end
        BY <1>8, <1>9, <1>19
      <3>1. len <= end /\ (end <= len => end = 0 /\ len = 0)
        <4>1. end = 0 => len = 0
          BY <1>2, <1>7, <1>8, <1>9 DEF Writable
        <4>2. QED
          BY <3>0, <4>1
      <3>2. end <= len => new = {}
        <4>1. end <= len => SectorsFor(end) <= Len(x.blocks)
          BY <1>9, <3>1, InodeFields
        <4>2. QED
          BY <1>12, <4>1
      <3>3. end <= len => t.used = s.used
        BY <1>14, <2>13, <2>15, <3>2
      <3>4. ASSUME NEW q \in Nat, q < end PROVE ByteAt(r, y, q) = ByteAfter(s.disk, x, p, bytes, q)
        <4>1. \A b \in BlocksOf(x) : d[b] = s.disk[b]
          BY <1>6, <1>16, <2>8
        <4>2. \A b \in new : d[b] = Blank
          BY <1>14, <1>15, <2>8
        <4>3. Blanked(s.disk, x, new, d)
          BY <4>1, <4>2 DEF Blanked
        <4>4. ByteAt(d, y, q) = IF q < x.len THEN ByteAt(s.disk, x, q) ELSE Nul
          BY <1>6, <1>8, <1>15, <2>2, <2>4, <3>4, <4>3, ExtendedBytes
        <4>5. y.blocks \in Seq(Sector)
          BY <2>4, InodeFields
        <4>6. Overlaid(d, y, p, bytes, r, q)
          BY <1>8, <2>2, <2>4, <2>10, <3>4, <4>5, WrittenBytes
        <4>7. QED
          BY <4>4, <4>6, Zenon DEF ByteAfter, Overlaid
      <3>5. y.len = IF end <= len THEN len ELSE end
        BY <1>8, <1>9, <2>4, <3>1
      <3>6. QED
        BY <1>2, <1>7, <1>8, <1>9, <2>4, <2>15, <2>17, <3>3, <3>4, <3>5 DEF Leaves
    <2>21. QED
      BY <2>4, <2>17, <2>20, <2>22
  <1>20. QED
    BY <1>17, <1>18, <1>19

(* Where a file is rewritten the inodes of the handles stay in memory.     *)
LEMMA RewritesAlive ==
  ASSUME NEW s, Good(s), NEW f \in Files(s), NEW y \in InodeRec, NEW t, Rewrites(s, f, y, t),
         NEW F, Alive(s, F)
  PROVE  Alive(t, F)
  <1>1. y # NotOpen
    BY NotOpenIsNone DEF Record
  <1>2. PICK i : i = InodeOf(s, f)
    OBVIOUS
  <1>3. /\ t.dir = s.dir /\ t.table = s.table /\ t.inodes[i] = y
        /\ \A j \in Sector \ {i} : t.inodes[j] = s.inodes[j]
    BY <1>2 DEF Rewrites
  <1>4. \A g : InodeOf(t, g) = InodeOf(s, g)
    BY <1>3, SameDir
  <1>5. SUFFICES ASSUME NEW g \in DOMAIN s.table, g \notin F PROVE t.inodes[InodeOf(s, g)] # NotOpen
    BY <1>3, <1>4 DEF Alive
  <1>6. g \in Files(s)
    BY DEF Good, Held
  <1>7. InodeOf(s, g) \in Sector
    BY <1>6, MemFacts
  <1>8. s.inodes[InodeOf(s, g)] # NotOpen
    BY <1>5 DEF Alive
  <1>9. QED
    BY <1>1, <1>3, <1>7, <1>8

(* What file_write writes, of bytes that end in two zeros.                 *)
LEMMA TerminatedIs ==
  ASSUME NEW bytes \in Seq(Byte)
  PROVE  /\ Terminated(bytes) \in Seq(Byte) /\ Len(Terminated(bytes)) = Len(bytes)
         /\ Len(Terminated(bytes)) > 0 => Terminated(bytes)[Len(Terminated(bytes))] = Nul
  <1>1. PICK l \in Nat : l = Len(bytes) /\ DOMAIN bytes = 1 .. l
    OBVIOUS
  <1>2. PICK b : b = Terminated(bytes)
    OBVIOUS
  <1>3. b = [k \in 1 .. l |-> IF k = l THEN Nul ELSE bytes[k]]
    BY <1>1, <1>2 DEF Terminated
  <1>4. \A k \in 1 .. l : bytes[k] \in Byte
    BY <1>1
  <1>5. Nul \in Byte
    BY DEF Byte
  <1>6. b \in [1 .. l -> Byte] /\ \A k \in 1 .. l : k = l => b[k] = Nul
    BY <1>3, <1>4, <1>5
  <1>7. b \in Seq(Byte) /\ Len(b) = l
    BY <1>6
  <1>8. l > 0 => l \in 1 .. l
    OBVIOUS
  <1>9. QED
    BY <1>1, <1>2, <1>6, <1>7, <1>8

PositionIn(s, f) == IF f \in DOMAIN s.table THEN s.table[f].pos ELSE 0

-----------------------------------------------------------------------------
(* What is read of a file are bytes.                                       *)
LEMMA MinOfTwo ==
  ASSUME NEW a \in Int, NEW b \in Int
  PROVE  Min({a, b}) = IF a <= b THEN a ELSE b
  <1>1. PICK m : m = IF a <= b THEN a ELSE b
    OBVIOUS
  <1>2. m \in {a, b} /\ \A y \in {a, b} : m <= y
    BY <1>1
  <1>3. \A x \in {a, b} : (\A y \in {a, b} : x <= y) => x = m
    BY <1>1
  <1>4. Min({a, b}) \in {a, b} /\ \A y \in {a, b} : Min({a, b}) <= y
    BY <1>2 DEF Min
  <1>5. Min({a, b}) = m
    BY <1>3, <1>4
  <1>6. QED
    BY <1>1, <1>5

(* The greater of two naturals.                                            *)
LEMMA MaxOfTwo ==
  ASSUME NEW a \in Int, NEW b \in Int
  PROVE  Max({a, b}) = IF a >= b THEN a ELSE b
  <1>1. PICK m : m = IF a >= b THEN a ELSE b
    OBVIOUS
  <1>2. m \in {a, b} /\ \A y \in {a, b} : m >= y
    BY <1>1
  <1>3. \A x \in {a, b} : (\A y \in {a, b} : x >= y) => x = m
    BY <1>1
  <1>4. Max({a, b}) \in {a, b} /\ \A y \in {a, b} : Max({a, b}) >= y
    BY <1>2 DEF Max
  <1>5. Max({a, b}) = m
    BY <1>3, <1>4
  <1>6. QED
    BY <1>1, <1>5

(* What is read at a position within the file is a byte.                   *)
LEMMA ByteAtType ==
  ASSUME NEW d \in [Sector -> Record], NEW x \in InodeRec, NEW q \in Nat, q < x.len
  PROVE  ByteAt(d, x, q) \in Byte
  <1>1. PICK n \in Nat : n = x.len
    BY InodeFields
  <1>2. PICK k, h : k = (q \div SectorSize) + 1 /\ h = (q % SectorSize) + 1
    OBVIOUS
  <1>3. k \in 1 .. SectorsFor(n) /\ h \in 1 .. SectorSize
    BY <1>1, <1>2, SectorWithin
  <1>4. k \in 1 .. Len(x.blocks)
    <2>1. SectorsFor(n) <= Len(x.blocks) /\ SectorsFor(n) \in Nat /\ Len(x.blocks) \in Nat
      BY <1>1, InodeFields, SectorsForType
    <2>2. QED
      BY <1>3, <2>1
  <1>5. x.blocks[k] \in Sector
    BY <1>4, InodeFields
  <1>6. d[x.blocks[k]] \in Record
    BY <1>5
  <1>7. ByteAt(d, x, q) = Raw(d[x.blocks[k]])[h]
    BY <1>2 DEF ByteAt
  <1>8. QED
    BY <1>3, <1>6, <1>7, RawType

(* A sequence of bytes, read one by one.                                   *)
LEMMA BytesType ==
  ASSUME NEW d \in [Sector -> Record], NEW x \in InodeRec, NEW p \in Nat, NEW n \in Nat
  PROVE  Bytes(d, x, p, n) \in Seq(Byte) /\ Len(Bytes(d, x, p, n)) <= n
  <1>1. PICK l \in Nat : l = x.len
    BY InodeFields
  <1>2. PICK m \in Int : m = l - p
    OBVIOUS
  <1>3. PICK c : c = Max({0, Min({n, x.len - p})})
    OBVIOUS
  <1>4. Min({n, m}) = IF n <= m THEN n ELSE m
    BY MinOfTwo
  <1>5. PICK a \in Int : a = Min({n, m})
    BY <1>4
  <1>6. Max({0, a}) = IF 0 >= a THEN 0 ELSE a
    BY MaxOfTwo
  <1>7. c \in Nat /\ c <= n /\ \A k \in 1 .. c : p + k - 1 \in Nat /\ p + k - 1 < l
    BY <1>1, <1>2, <1>3, <1>4, <1>5, <1>6
  <1>8. \A k \in 1 .. c : ByteAt(d, x, p + k - 1) \in Byte
    BY <1>1, <1>7, ByteAtType
  <1> DEFINE e(k) == ByteAt(d, x, p + k - 1)
  <1>9. Bytes(d, x, p, n) = [k \in 1 .. c |-> e(k)]
    BY <1>3, Zenon DEF Bytes
  <1>10. \A k \in 1 .. c : e(k) \in Byte
    BY <1>8
  <1> HIDE DEF e
  <1>11. QED
    BY <1>7, <1>9, <1>10

(* The contents of a file are bytes.                                       *)
LEMMA ContentsType ==
  ASSUME NEW s, Good(s), NEW f \in Files(s)
  PROVE  Contents(s, f) \in Seq(Byte)
  <1>1. PICK x \in InodeRec : x = Mem(s, f)
    BY MemFacts
  <1>2. PICK l \in Nat : l = x.len
    BY <1>1, InodeFields
  <1>3. s.disk \in [Sector -> Record]
    BY StateFields DEF Good
  <1>4. \A k \in 1 .. l : ByteAt(s.disk, x, k - 1) \in Byte
    BY <1>2, <1>3, ByteAtType
  <1> DEFINE e(k) == ByteAt(s.disk, x, k - 1)
  <1>5. Contents(s, f) = [k \in 1 .. l |-> e(k)]
    BY <1>1, <1>2, Zenon DEF Contents, Mem
  <1>6. \A k \in 1 .. l : e(k) \in Byte
    BY <1>4
  <1> HIDE DEF e
  <1>7. QED
    BY <1>5, <1>6

\* y on disk e holds, up to n, the bytes of x on disk d.
Copies(d, x, n, e, y) == \A q \in 0 .. n - 1 : ByteAt(e, y, q) = ByteAt(d, x, q)

(* The bytes of a file, one by one.                                        *)
LEMMA ContentsAre ==
  ASSUME NEW s, Good(s), NEW f \in Files(s)
  PROVE  /\ Contents(s, f) \in Seq(Byte) /\ Len(Contents(s, f)) = Mem(s, f).len
         /\ Mem(s, f).len \in 0 .. MaxLength /\ Mem(s, f).len \in Nat
         /\ \A k \in 1 .. Mem(s, f).len : Contents(s, f)[k] = ByteAt(s.disk, Mem(s, f), k - 1)
  <1>1. PICK x \in InodeRec : x = Mem(s, f)
    BY MemFacts
  <1>2. PICK l \in Nat : l = x.len /\ l \in 0 .. MaxLength
    BY <1>1, InodeFields
  <1> DEFINE e(k) == ByteAt(s.disk, x, k - 1)
  <1>3. Contents(s, f) = [k \in 1 .. l |-> e(k)]
    BY <1>1, <1>2, Zenon DEF Contents, Mem
  <1>4. Contents(s, f) \in Seq(Byte)
    BY ContentsType
  <1> HIDE DEF e
  <1>5. DOMAIN Contents(s, f) = 1 .. l /\ \A k \in 1 .. l : Contents(s, f)[k] = e(k)
    BY <1>3
  <1>6. Len(Contents(s, f)) = l
    BY <1>2, <1>4, <1>5
  <1>7. \A k \in 1 .. l : Contents(s, f)[k] = ByteAt(s.disk, x, k - 1)
    BY <1>5, Zenon DEF e
  <1>8. QED
    BY <1>1, <1>2, <1>4, <1>6, <1>7

(* Sequences of the same length and elements are the same.                 *)
LEMMA SameSeq ==
  ASSUME NEW S, NEW a \in Seq(S), NEW b \in Seq(S), Len(a) = Len(b),
         \A k \in 1 .. Len(a) : a[k] = b[k]
  PROVE  a = b
  OBVIOUS

(* Two states that hold the same bytes of a file.                          *)
LEMMA SameContents ==
  ASSUME NEW s, Good(s), NEW t, Good(t), NEW f \in Files(s), NEW g \in Files(t),
         Mem(t, g).len = Mem(s, f).len,
         Copies(s.disk, Mem(s, f), Mem(s, f).len, t.disk, Mem(t, g))
  PROVE  Contents(t, g) = Contents(s, f)
  <1>1. PICK l \in Nat : l = Mem(s, f).len /\ l = Mem(t, g).len
    BY ContentsAre
  <1>2. PICK a : a = Contents(s, f)
    OBVIOUS
  <1>3. PICK b : b = Contents(t, g)
    OBVIOUS
  <1>4. a \in Seq(Byte) /\ Len(a) = l /\ \A k \in 1 .. l : a[k] = ByteAt(s.disk, Mem(s, f), k - 1)
    BY <1>1, <1>2, ContentsAre
  <1>5. b \in Seq(Byte) /\ Len(b) = l /\ \A k \in 1 .. l : b[k] = ByteAt(t.disk, Mem(t, g), k - 1)
    BY <1>1, <1>3, ContentsAre
  <1>6. \A k \in 1 .. l : k - 1 \in 0 .. l - 1
    BY <1>1
  <1>7. \A k \in 1 .. l : a[k] = b[k]
    BY <1>1, <1>4, <1>5, <1>6 DEF Copies
  <1>8. QED
    BY <1>2, <1>3, <1>4, <1>5, <1>7, SameSeq

\* The blocks that hold the bytes of x are y's, and d and e agree on them.
Agrees(d, x, e, y) ==
  /\ y.len = x.len
  /\ \A k \in 1 .. SectorsFor(x.len) :
       y.blocks[k] = x.blocks[k] /\ e[x.blocks[k]] = d[x.blocks[k]]

(* The bytes of an inode lie in the blocks its length reaches.             *)
LEMMA AgreesCopies ==
  ASSUME NEW d, NEW x \in InodeRec, NEW e, NEW y, Agrees(d, x, e, y)
  PROVE  Copies(d, x, x.len, e, y)
  <1>1. PICK n \in Nat : n = x.len
    BY InodeFields
  <1>2. SUFFICES ASSUME NEW q \in 0 .. n - 1 PROVE ByteAt(e, y, q) = ByteAt(d, x, q)
    BY <1>1 DEF Copies
  <1>3. q \in Nat /\ q < n
    BY <1>1
  <1>4. PICK k, h : k = (q \div SectorSize) + 1 /\ h = (q % SectorSize) + 1
    OBVIOUS
  <1>5. k \in 1 .. SectorsFor(n)
    BY <1>3, <1>4, SectorWithin
  <1>6. y.blocks[k] = x.blocks[k] /\ e[x.blocks[k]] = d[x.blocks[k]]
    BY <1>1, <1>5 DEF Agrees
  <1>7. ByteAt(e, y, q) = Raw(e[y.blocks[k]])[h] /\ ByteAt(d, x, q) = Raw(d[x.blocks[k]])[h]
    BY <1>4 DEF ByteAt
  <1>8. QED
    BY <1>6, <1>7

(* An inode in memory holds the bytes of the one on disk.                  *)
LEMMA ShrinksAgrees ==
  ASSUME NEW x \in InodeRec, NEW y \in InodeRec, Shrinks(x, y), NEW d
  PROVE  Agrees(d, x, d, y) /\ Agrees(d, y, d, x)
  <1>1. SectorsFor(x.len) \in Nat /\ SectorsFor(x.len) <= Len(x.blocks) /\ Len(x.blocks) \in Nat
    BY InodeFields, SectorsForType
  <1>2. x.len = y.len /\ \A k \in 1 .. Len(x.blocks) : x.blocks[k] = y.blocks[k]
    BY DEF Shrinks
  <1>3. \A k \in 1 .. SectorsFor(x.len) : k \in 1 .. Len(x.blocks)
    BY <1>1
  <1>4. QED
    BY <1>2, <1>3 DEF Agrees

KeepsBytes(s, t) ==
  Files(t) = Files(s) /\ \A g \in Files(s) : Contents(t, g) = Contents(s, g)

(* Such states hold the same bytes of every file.                          *)
LEMMA SameContent ==
  ASSUME NEW s, NEW t, KeepsBytes(s, t)
  PROVE  Content(t) = Content(s)
  BY DEF KeepsBytes, Content

(* The same disk under the same names, whatever is in memory.              *)
LEMMA FrameContents ==
  ASSUME NEW s, Good(s), NEW t, Good(t), t.disk = s.disk,
         NEW f \in Files(s), NEW g \in Files(t), InodeOf(t, g) = InodeOf(s, f)
  PROVE  Contents(t, g) = Contents(s, f)
  <1>1. PICK z \in InodeRec : z = s.disk[InodeOf(s, f)]
    BY MemFacts
  <1>2. PICK x \in InodeRec : x = Mem(s, f) /\ Shrinks(z, x)
    BY <1>1, MemFacts
  <1>3. PICK y \in InodeRec : y = Mem(t, g) /\ Shrinks(z, y)
    BY <1>1, MemFacts
  <1>4. PICK d : d = s.disk /\ d = t.disk
    OBVIOUS
  <1>5. Agrees(d, z, d, y) /\ Agrees(d, z, d, x)
    BY <1>2, <1>3, ShrinksAgrees
  <1>6. Agrees(d, x, d, y)
    BY <1>5 DEF Agrees
  <1>7. Copies(d, x, x.len, d, y)
    BY <1>6, AgreesCopies
  <1>8. y.len = x.len
    BY <1>6 DEF Agrees
  <1>9. QED
    BY <1>2, <1>3, <1>4, <1>7, <1>8, SameContents

(* The same disk and directory hold the same bytes of every file.          *)
LEMMA FrameContent ==
  ASSUME NEW s, Good(s), NEW t, Good(t), Frame(s, t)
  PROVE  KeepsBytes(s, t)
  <1>1. Files(t) = Files(s) /\ \A g : InodeOf(t, g) = InodeOf(s, g)
    BY FrameFiles
  <1>2. t.disk = s.disk
    BY DEF Frame
  <1>3. ASSUME NEW g \in Files(s) PROVE Contents(t, g) = Contents(s, g)
    BY <1>1, <1>2, FrameContents
  <1>4. QED
    BY <1>1, <1>3 DEF KeepsBytes

(* What is read of an inode, byte by byte.                                 *)
LEMMA BytesAre ==
  ASSUME NEW d \in [Sector -> Record], NEW x \in InodeRec, NEW p \in Nat, NEW n \in Nat,
         NEW l \in Nat, l = x.len
  PROVE  /\ Bytes(d, x, p, n) \in Seq(Byte)
         /\ Len(Bytes(d, x, p, n)) = IF n <= l - p THEN n ELSE IF p <= l THEN l - p ELSE 0
         /\ \A k \in 1 .. Len(Bytes(d, x, p, n)) : Bytes(d, x, p, n)[k] = ByteAt(d, x, p + k - 1)
  <1>1. PICK m \in Int : m = l - p
    OBVIOUS
  <1>2. PICK c : c = Max({0, Min({n, x.len - p})})
    OBVIOUS
  <1>3. Min({n, m}) = IF n <= m THEN n ELSE m
    BY MinOfTwo
  <1>4. PICK a \in Int : a = Min({n, m})
    BY <1>3
  <1>5. Max({0, a}) = IF 0 >= a THEN 0 ELSE a
    BY MaxOfTwo
  <1>6. c \in Nat /\ c = IF n <= l - p THEN n ELSE IF p <= l THEN l - p ELSE 0
    BY <1>1, <1>2, <1>3, <1>4, <1>5
  <1> DEFINE e(k) == ByteAt(d, x, p + k - 1)
  <1>7. Bytes(d, x, p, n) = [k \in 1 .. c |-> e(k)]
    BY <1>2, Zenon DEF Bytes
  <1>8. PICK b : b = Bytes(d, x, p, n)
    OBVIOUS
  <1> HIDE DEF e
  <1>9. DOMAIN b = 1 .. c /\ \A k \in 1 .. c : b[k] = e(k)
    BY <1>7, <1>8
  <1>10. b \in Seq(Byte)
    BY <1>8, BytesType
  <1>11. Len(b) = c
    BY <1>6, <1>9, <1>10
  <1>12. \A k \in 1 .. c : b[k] = ByteAt(d, x, p + k - 1)
    BY <1>9, Zenon DEF e
  <1>13. QED
    BY <1>6, <1>8, <1>10, <1>11, <1>12

(* The rest of a sequence of bytes.                                        *)
LEMMA FromIs ==
  ASSUME NEW b \in Seq(Byte), NEW p \in Nat
  PROVE  /\ Store!From(b, p) \in Seq(Byte)
         /\ Len(Store!From(b, p)) = IF p <= Len(b) THEN Len(b) - p ELSE 0
         /\ \A k \in 1 .. Len(Store!From(b, p)) : Store!From(b, p)[k] = b[p + k]
  <1>1. PICK l \in Nat : l = Len(b)
    OBVIOUS
  <1>2. PICK m \in Nat \ {0} : m = p + 1
    OBVIOUS
  <1>3. Store!From(b, p) = SubSeq(b, m, l)
    BY <1>1, <1>2, Zenon DEF Store!From
  <1>4. /\ SubSeq(b, m, l) \in Seq(Byte)
        /\ Len(SubSeq(b, m, l)) = IF m <= l THEN l - m + 1 ELSE 0
        /\ \A k \in 1 .. Len(SubSeq(b, m, l)) : SubSeq(b, m, l)[k] = b[m + k - 1]
    BY <1>1, SubSeqProperties
  <1>5. \A k \in Nat : m + k - 1 = p + k
    BY <1>2
  <1>6. QED
    BY <1>1, <1>2, <1>3, <1>4, <1>5

(* The first bytes of a sequence.                                          *)
LEMMA FirstIs ==
  ASSUME NEW b \in Seq(Byte), NEW n \in 0 .. Len(b)
  PROVE  /\ SubSeq(b, 1, n) \in Seq(Byte) /\ Len(SubSeq(b, 1, n)) = n
         /\ \A k \in 1 .. n : SubSeq(b, 1, n)[k] = b[k]
  OBVIOUS

(* Writing one file leaves the bytes of the others.                        *)
LEMMA RewritesOthers ==
  ASSUME NEW s, Good(s), Clean(s), NEW f \in Files(s), f \in DOMAIN s.table,
         NEW y \in InodeRec, NEW t, Rewrites(s, f, y, t), NEW g \in Files(s), g # f
  PROVE  Contents(t, g) = Contents(s, g)
  <1>1. Good(t) /\ g \in Files(t) /\ Mem(t, g) = Mem(s, g)
    BY RewritesKeeps
  <1>2. PICK x \in InodeRec : x = Mem(s, g)
    BY MemFacts
  <1>3. f \in Kept(s) /\ g \in Kept(s)
    BY DEF Clean, Kept
  <1>4. BlocksOf(x) \subseteq s.used \ ({InodeOf(s, f)} \cup Own(s, f))
    BY <1>2, <1>3 DEF Good, Apart, Own
  <1>5. x.len \in Nat /\ SectorsFor(x.len) \in Nat /\ SectorsFor(x.len) <= Len(x.blocks) /\ Len(x.blocks) \in Nat
    BY InodeFields, SectorsForType
  <1>6. ASSUME NEW k \in 1 .. SectorsFor(x.len) PROVE t.disk[x.blocks[k]] = s.disk[x.blocks[k]]
    <2>1. k \in 1 .. Len(x.blocks)
      BY <1>5
    <2>2. x.blocks[k] \in s.used \ ({InodeOf(s, f)} \cup Own(s, f))
      BY <1>4, <2>1 DEF BlocksOf
    <2>3. QED
      BY <2>2 DEF Rewrites
  <1>7. Agrees(s.disk, x, t.disk, x)
    BY <1>6 DEF Agrees
  <1>8. Copies(s.disk, x, x.len, t.disk, x)
    BY <1>7, AgreesCopies
  <1>9. QED
    BY <1>1, <1>2, <1>8, SameContents

\* The byte at k of c with b written at p.
SplicedByte(c, p, b, k) ==
  IF k - 1 \in p .. p + Len(b) - 1 THEN b[(k - 1) - p + 1] ELSE IF k - 1 < Len(c) THEN c[k] ELSE Nul

\* r is c with b written at p.
IsSpliced(c, p, b, r) ==
  /\ r \in Seq(Byte) /\ Len(r) = IF p + Len(b) <= Len(c) THEN Len(c) ELSE p + Len(b)
  /\ \A k \in 1 .. Len(r) : r[k] = SplicedByte(c, p, b, k)

(* What FileStore calls Spliced, byte by byte.                             *)
LEMMA SplicedIs ==
  ASSUME NEW c \in Seq(Byte), NEW p \in Nat, NEW b \in Seq(Byte)
  PROVE  IsSpliced(c, p, b, Store!Spliced(c, p, b))
  <1>1. PICK l \in Nat : l = Len(b)
    OBVIOUS
  <1>2. PICK n \in Nat : n = Len(c)
    OBVIOUS
  <1>3. PICK z : z = Store!Zeros(p - Len(c))
    OBVIOUS
  <1>4. /\ z \in Seq(Byte) /\ Len(z) = IF n <= p THEN p - n ELSE 0
        /\ \A k \in 1 .. Len(z) : z[k] = Nul
    <2>1. PICK m \in Int : m = p - n
      OBVIOUS
    <2>2. z = [k \in 1 .. m |-> Nul]
      BY <1>2, <1>3, <2>1 DEF Store!Zeros
    <2>3. Nul \in Byte
      BY DEF Byte
    <2>4. PICK w \in Nat : (n <= p => w = p - n) /\ (~(n <= p) => w = 0)
      <3>1. CASE n <= p
        <4>1. p - n \in Nat
          BY <3>1
        <4>2. QED
          BY <3>1, <4>1
      <3>2. CASE ~(n <= p)
        BY <3>2
      <3>3. QED
        BY <3>1, <3>2
    <2>5. 1 .. m = 1 .. w
      BY <2>1, <2>4
    <2>6. z \in [1 .. w -> Byte] /\ \A k \in 1 .. w : z[k] = Nul
      BY <2>2, <2>3, <2>5
    <2>7. z \in Seq(Byte) /\ Len(z) = w
      BY <2>6
    <2>8. QED
      BY <2>4, <2>6, <2>7
  <1>5. PICK a : a = c \o z
    OBVIOUS
  <1>6. /\ a \in Seq(Byte) /\ Len(a) = IF n <= p THEN p ELSE n
        /\ \A k \in 1 .. Len(a) : a[k] = IF k <= n THEN c[k] ELSE Nul
    <2>1. /\ a \in Seq(Byte) /\ Len(a) = Len(c) + Len(z)
          /\ \A k \in 1 .. Len(c) + Len(z) : a[k] = IF k <= Len(c) THEN c[k] ELSE z[k - Len(c)]
      BY <1>4, <1>5, ConcatProperties
    <2>2. PICK w \in Nat : w = Len(z)
      BY <1>4
    <2>3. Len(a) = n + w
      BY <1>2, <2>1, <2>2
    <2>4. ASSUME NEW k \in 1 .. Len(a) PROVE a[k] = IF k <= n THEN c[k] ELSE Nul
      <3>1. k \in 1 .. n + w /\ (k > n => k - n \in 1 .. w)
        BY <2>3
      <3>2. a[k] = IF k <= n THEN c[k] ELSE z[k - n]
        BY <1>2, <2>1, <2>2, <3>1
      <3>3. k > n => z[k - n] = Nul
        BY <1>4, <2>2, <3>1
      <3>4. QED
        BY <3>1, <3>2, <3>3
    <2>5. Len(a) = IF n <= p THEN p ELSE n
      BY <1>4, <2>2, <2>3
    <2>6. QED
      BY <2>1, <2>4, <2>5
  <1>7. PICK u : u = SubSeq(a, 1, p)
    OBVIOUS
  <1>8. u \in Seq(Byte) /\ Len(u) = p /\ \A k \in 1 .. p : u[k] = a[k]
    <2>1. p \in 0 .. Len(a)
      BY <1>6
    <2>2. QED
      BY <1>6, <1>7, <2>1, FirstIs
  <1>9. PICK v : v = u \o b
    OBVIOUS
  <1>10. /\ v \in Seq(Byte) /\ Len(v) = p + l
         /\ \A k \in 1 .. p + l : v[k] = IF k <= p THEN a[k] ELSE b[k - p]
    <2>1. /\ v \in Seq(Byte) /\ Len(v) = Len(u) + Len(b)
          /\ \A k \in 1 .. Len(u) + Len(b) : v[k] = IF k <= Len(u) THEN u[k] ELSE b[k - Len(u)]
      BY <1>8, <1>9, ConcatProperties
    <2>2. Len(v) = p + l
      BY <1>1, <1>8, <2>1
    <2>3. ASSUME NEW k \in 1 .. p + l PROVE v[k] = IF k <= p THEN a[k] ELSE b[k - p]
      BY <1>1, <1>8, <2>1
    <2>4. QED
      BY <2>1, <2>2, <2>3
  <1>11. PICK w : w = Store!From(a, p + l)
    OBVIOUS
  <1>12. /\ w \in Seq(Byte) /\ Len(w) = IF p + l <= Len(a) THEN Len(a) - (p + l) ELSE 0
         /\ \A k \in 1 .. Len(w) : w[k] = a[p + l + k]
    <2>1. p + l \in Nat
      OBVIOUS
    <2>2. QED
      BY <1>6, <1>11, <2>1, FromIs
  <1>13. PICK r : r = v \o w
    OBVIOUS
  <1>14. Store!Spliced(c, p, b) = r
    BY <1>1, <1>3, <1>5, <1>7, <1>9, <1>11, <1>13, Zenon DEF Store!Spliced
  <1>15. PICK m \in Nat : m = Len(w)
    <2>1. w \in Seq(Byte)
      BY <1>12
    <2>2. Len(w) \in Nat
      BY <2>1
    <2>3. QED
      BY <2>2
  <1>16. PICK e \in Nat : e = Len(a)
    BY <1>6
  <1>17. /\ r \in Seq(Byte) /\ Len(r) = p + l + m
         /\ \A k \in 1 .. p + l + m : r[k] = IF k <= p + l THEN v[k] ELSE w[k - (p + l)]
    <2>1. /\ r \in Seq(Byte) /\ Len(r) = Len(v) + Len(w)
          /\ \A k \in 1 .. Len(v) + Len(w) : r[k] = IF k <= Len(v) THEN v[k] ELSE w[k - Len(v)]
      BY <1>10, <1>12, <1>13, ConcatProperties
    <2>2. QED
      BY <1>10, <1>15, <2>1
  <1>18. Len(r) = IF p + l <= n THEN n ELSE p + l
    BY <1>6, <1>12, <1>15, <1>16, <1>17
  <1>19. ASSUME NEW k \in 1 .. Len(r) PROVE r[k] = SplicedByte(c, p, b, k)
    <2>1. k \in 1 .. p + l + m
      BY <1>17
    <2>2. CASE k <= p
      <3>1. r[k] = a[k] /\ k \in 1 .. e
        BY <1>6, <1>10, <1>16, <1>17, <2>1, <2>2
      <3>2. a[k] = IF k <= n THEN c[k] ELSE Nul
        BY <1>6, <1>16, <3>1
      <3>3. k - 1 \notin p .. p + l - 1
        BY <2>2
      <3>4. k - 1 < n <=> k <= n
        BY <2>1
      <3>5. QED
        BY <1>1, <1>2, <3>1, <3>2, <3>3, <3>4 DEF SplicedByte
    <2>3. CASE k > p /\ k <= p + l
      <3>1. r[k] = b[k - p]
        BY <1>10, <1>17, <2>1, <2>3
      <3>2. k - 1 \in p .. p + l - 1 /\ (k - 1) - p + 1 = k - p
        BY <2>1, <2>3
      <3>3. QED
        BY <1>1, <3>1, <3>2 DEF SplicedByte
    <2>4. CASE k > p + l
      <3>1. k - (p + l) \in 1 .. m
        BY <2>1, <2>4
      <3>2. r[k] = w[k - (p + l)]
        BY <1>17, <2>1, <2>4
      <3>3. w[k - (p + l)] = a[p + l + (k - (p + l))]
        BY <1>12, <1>15, <3>1
      <3>4. p + l + (k - (p + l)) = k
        BY <2>1
      <3>5. k \in 1 .. e /\ p + l <= e
        BY <1>12, <1>15, <1>16, <2>1, <2>4, <3>1
      <3>6. a[k] = IF k <= n THEN c[k] ELSE Nul
        BY <1>6, <1>16, <3>5
      <3>7. k - 1 \notin p .. p + l - 1
        BY <2>1, <2>4
      <3>8. k - 1 < n <=> k <= n
        BY <2>1
      <3>9. QED
        BY <1>1, <1>2, <3>2, <3>3, <3>4, <3>6, <3>7, <3>8 DEF SplicedByte
    <2>5. QED
      BY <2>1, <2>2, <2>3, <2>4
  <1>20. QED
    BY <1>1, <1>2, <1>14, <1>17, <1>18, <1>19 DEF IsSpliced

(* Writing over the whole of a file leaves what was written.               *)
LEMMA SplicedWhole ==
  ASSUME NEW c \in Seq(Byte), NEW b \in Seq(Byte), Len(c) = Len(b)
  PROVE  Store!Spliced(c, 0, b) = b
  <1>1. PICK r : r = Store!Spliced(c, 0, b) /\ IsSpliced(c, 0, b, r)
    BY SplicedIs
  <1>2. PICK l \in Nat : l = Len(b) /\ l = Len(c)
    OBVIOUS
  <1>3. r \in Seq(Byte) /\ Len(r) = l /\ \A k \in 1 .. l : r[k] = SplicedByte(c, 0, b, k)
    BY <1>1, <1>2 DEF IsSpliced
  <1>4. ASSUME NEW k \in 1 .. l PROVE r[k] = b[k]
    <2>1. k - 1 \in 0 .. 0 + l - 1 /\ (k - 1) - 0 + 1 = k
      OBVIOUS
    <2>2. SplicedByte(c, 0, b, k) = b[k]
      BY <1>2, <2>1 DEF SplicedByte
    <2>3. QED
      BY <1>3, <2>2
  <1>5. QED
    BY <1>1, <1>2, <1>3, <1>4, SameSeq

\* t is s once file_write has written b to f, or has found no room for it.
Wrote(s, f, b, t) ==
  LET p == PositionIn(s, f)
      c == Contents(s, f)
  IN /\ \A g \in Files(s) : g # f => Contents(t, g) = Contents(s, g)
     /\ \A g \in DOMAIN s.table : g # f => t.table[g] = s.table[g]
     /\ \/ Contents(t, f) = c /\ t.table[f].pos = p - 2 /\ Len(c) < p + Len(b)
        \/ /\ Contents(t, f) = Store!Spliced(c, p, b) /\ t.table[f].pos = p + Len(b) - 2
           /\ p + Len(b) <= Len(c) => t.used = s.used

\* t has in its free sectors what s has in them, and every file has the blocks it had on s.
Rests(s, t) ==
  /\ \A j \in Sector \ t.used : t.disk[j] = s.disk[j]
  /\ \A g \in Files(s) : Begins(Mem(s, g), Mem(t, g))

(* file_write.                                                             *)
LEMMA WroteToKeeps ==
  ASSUME NEW s, Good(s), Clean(s), NEW f \in Files(s), NEW F, Alive(s, F), f \notin F,
         PositionIn(s, f) \in Nat, NEW bytes \in Seq(Byte),
         PositionIn(s, f) + Len(bytes) <= MaxLength,
         PositionIn(s, f) + Len(bytes) = 0 => Mem(s, f).len = 0,
         NEW t, t = WroteTo(s, f, bytes)
  PROVE  /\ Good(t) /\ Clean(t) /\ Files(t) = Files(s)
         /\ \A g : InodeOf(t, g) = InodeOf(s, g)
         /\ DOMAIN t.table = DOMAIN s.table \cup {f}
         /\ Alive(t, F) /\ Wrote(s, f, Terminated(bytes), t) /\ Rests(s, t)
  <1>1. PICK o : o = Opened(s, f)
    OBVIOUS
  <1>2. PICK p \in Nat : p = PositionIn(s, f)
    OBVIOUS
  <1>3. /\ Good(o) /\ Frame(s, o)
        /\ DOMAIN o.table = DOMAIN s.table \cup {f}
        /\ o.table[f].pos = p
        /\ Clean(o) /\ Alive(o, F) /\ Mem(o, f) = Mem(s, f)
    BY <1>1, <1>2, OpenedKeeps DEF PositionIn
  <1>4. Files(o) = Files(s) /\ \A g : InodeOf(o, g) = InodeOf(s, g)
    BY <1>3, FrameFiles
  <1>5. PICK i : i = InodeOf(o, f)
    OBVIOUS
  <1>6. o.table[f].inode = i /\ o.inodes[i] # NotOpen
    BY <1>3, <1>5 DEF Good, Held, Alive
  <1>7. PICK b \in Seq(Byte) : /\ b = Terminated(bytes) /\ Len(b) = Len(bytes)
                               /\ Len(b) > 0 => b[Len(b)] = Nul
    BY TerminatedIs
  <1>8. Writable(o, f, p, b)
    BY <1>2, <1>3, <1>7 DEF Writable
  <1>9. PICK done : done = WriteAt(o, i, p, b)
    OBVIOUS
  <1>10. /\ done.written \in Nat
         /\ \E y \in InodeRec : Rewrites(o, f, y, done.state) /\ Leaves(o, f, p, b, done, y)
    BY <1>3, <1>4, <1>5, <1>6, <1>8, <1>9, WriteAtIs
  <1>11. PICK y \in InodeRec : Rewrites(o, f, y, done.state) /\ Leaves(o, f, p, b, done, y)
    BY <1>10
  <1>12. PICK m : m = done.state
    OBVIOUS
  <1>13. f \in Files(o) /\ f \in DOMAIN o.table
    BY <1>3, <1>4
  <1>14. /\ Good(m) /\ Clean(m) /\ Files(m) = Files(o)
         /\ \A g : InodeOf(m, g) = InodeOf(o, g)
    BY <1>3, <1>11, <1>12, <1>13, RewritesKeeps
  <1>15. Alive(m, F)
    BY <1>3, <1>11, <1>12, <1>13, RewritesAlive
  <1>16. m.table = o.table
    BY <1>11, <1>12 DEF Rewrites
  <1>17. PICK z \in Int : z = p + done.written - 2
    <2>1. PICK w \in Nat : w = done.written
      BY <1>10
    <2>2. p + w - 2 \in Int
      OBVIOUS
    <2>3. QED
      BY <2>1, <2>2
  <1>18. t = Moved(m, f, z)
    BY <1>1, <1>3, <1>6, <1>7, <1>9, <1>12, <1>17, Zenon DEF WroteTo
  <1>19. /\ Good(t) /\ Frame(m, t) /\ DOMAIN t.table = DOMAIN m.table
         /\ Clean(t) /\ Alive(t, F) /\ t.table[f].pos = z
         /\ \A g \in DOMAIN m.table : g # f => t.table[g] = m.table[g]
    <2>1. f \in DOMAIN m.table
      BY <1>13, <1>16
    <2>2. Serves(m, f, t) /\ Frame(m, t) /\ t.table[f].pos = z
      BY <1>14, <1>17, <1>18, <2>1, MovedKeeps
    <2>3. QED
      BY <1>14, <1>15, <2>1, <2>2 DEF Serves
  <1>20. Files(t) = Files(m) /\ \A g : InodeOf(t, g) = InodeOf(m, g)
    BY <1>19, FrameFiles
  <1>22. Files(s) = Files(m) /\ Files(s) = Files(o)
    BY <1>4, <1>14
  <1>23. ASSUME NEW g \in Files(s), g # f PROVE Contents(t, g) = Contents(s, g)
    <2>1. Contents(m, g) = Contents(o, g)
      BY <1>3, <1>11, <1>12, <1>13, <1>22, <1>23, RewritesOthers
    <2>2. Contents(o, g) = Contents(s, g)
      BY <1>3, FrameContent DEF KeepsBytes
    <2>3. Contents(t, g) = Contents(m, g)
      BY <1>14, <1>19, <1>22, FrameContent DEF KeepsBytes
    <2>4. QED
      BY <2>1, <2>2, <2>3
  <1>24. \A g \in DOMAIN s.table : g # f => t.table[g] = s.table[g]
    <2>1. \A g \in DOMAIN s.table : o.table[g] = s.table[g]
      BY <1>1, OpenedKeeps
    <2>2. QED
      BY <1>3, <1>16, <1>19, <2>1
  <1>25. PICK c \in Seq(Byte) : c = Contents(s, f) /\ c = Contents(o, f)
    <2>1. Contents(o, f) = Contents(s, f)
      BY <1>3, FrameContent DEF KeepsBytes
    <2>2. QED
      BY <2>1, ContentsType
  <1>26. PICK v \in Seq(Byte) : v = Contents(t, f) /\ v = Contents(m, f)
    <2>1. Contents(t, f) = Contents(m, f)
      BY <1>14, <1>19, <1>22, FrameContent DEF KeepsBytes
    <2>2. f \in Files(m)
      BY <1>22
    <2>3. QED
      BY <1>14, <2>1, <2>2, ContentsType
  <1>27. PICK x \in InodeRec : x = Mem(o, f)
    BY <1>3, <1>13, MemFacts
  <1>28. PICK n \in Nat : n = Len(c) /\ n = x.len
    BY <1>3, <1>13, <1>25, <1>27, ContentsAre
  <1>29. \A k \in 1 .. n : c[k] = ByteAt(o.disk, x, k - 1)
    BY <1>3, <1>13, <1>25, <1>27, <1>28, ContentsAre
  <1>30. PICK h \in Nat : h = Len(v) /\ h = y.len
    <2>1. Mem(m, f) = y
      BY <1>3, <1>11, <1>12, <1>13, RewritesKeeps
    <2>2. QED
      BY <1>14, <1>22, <1>26, <2>1, ContentsAre
  <1>31. \A k \in 1 .. h : v[k] = ByteAt(m.disk, y, k - 1)
    <2>1. Mem(m, f) = y
      BY <1>3, <1>11, <1>12, <1>13, RewritesKeeps
    <2>2. QED
      BY <1>14, <1>22, <1>26, <1>30, <2>1, ContentsAre
  <1>32. PICK l \in Nat : l = Len(b)
    OBVIOUS
  <1>37. /\ p = PositionIn(s, f) /\ c = Contents(s, f) /\ b = Terminated(bytes)
         /\ \A g \in Files(s) : g # f => Contents(t, g) = Contents(s, g)
         /\ \A g \in DOMAIN s.table : g # f => t.table[g] = s.table[g]
    BY <1>2, <1>7, <1>23, <1>24, <1>25
  <1>33. \/ /\ done.written = 0 /\ h = n /\ n < p + l
            /\ \A q \in Nat : q < n => ByteAt(m.disk, y, q) = ByteAt(o.disk, x, q)
         \/ /\ done.written = l /\ h = (IF p + l <= n THEN n ELSE p + l)
            /\ p + l <= n => m.used = o.used
            /\ \A q \in Nat : q < h => ByteAt(m.disk, y, q) = ByteAfter(o.disk, x, p, b, q)
    BY <1>11, <1>12, <1>27, <1>28, <1>30, <1>32, Zenon DEF Leaves
  <1>34. ASSUME /\ done.written = 0 /\ h = n /\ n < p + l
              /\ \A q \in Nat : q < n => ByteAt(m.disk, y, q) = ByteAt(o.disk, x, q)
         PROVE Wrote(s, f, b, t)
    <2>1. ASSUME NEW k \in 1 .. n PROVE v[k] = c[k]
      <3>1. k - 1 \in Nat /\ k - 1 < n /\ k \in 1 .. h
        BY <1>34
      <3>2. QED
        BY <1>29, <1>31, <1>34, <3>1
    <2>2. v = c
      BY <1>28, <1>30, <1>34, <2>1, SameSeq
    <2>3. z = p - 2
      BY <1>17, <1>34
    <2>4. Contents(t, f) = c /\ t.table[f].pos = p - 2 /\ Len(c) < p + Len(b)
      BY <1>19, <1>26, <1>28, <1>32, <1>34, <2>2, <2>3
    <2>5. QED
      BY <1>37, <2>4, Zenon DEF Wrote
  <1>35. ASSUME done.written = l, h = IF p + l <= n THEN n ELSE p + l,
                p + l <= n => m.used = o.used,
                \A q \in Nat : q < h => ByteAt(m.disk, y, q) = ByteAfter(o.disk, x, p, b, q)
         PROVE Wrote(s, f, b, t)
    <2>1. PICK sp : sp = Store!Spliced(c, p, b) /\ IsSpliced(c, p, b, sp)
      BY SplicedIs
    <2>2. Len(sp) = h /\ sp \in Seq(Byte)
      BY <1>28, <1>32, <1>35, <2>1 DEF IsSpliced
    <2>3. \A k \in 1 .. h : sp[k] = SplicedByte(c, p, b, k)
      BY <2>1, <2>2 DEF IsSpliced
    <2>4. ASSUME NEW k \in 1 .. h PROVE v[k] = sp[k]
      <3>1. PICK q \in Nat : q = k - 1 /\ q < h
        BY <2>4
      <3>2. v[k] = ByteAfter(o.disk, x, p, b, q)
        <4>1. ByteAt(m.disk, y, q) = ByteAfter(o.disk, x, p, b, q)
          BY <1>35, <3>1, Zenon
        <4>2. v[k] = ByteAt(m.disk, y, q)
          BY <1>31, <3>1
        <4>3. QED
          BY <4>1, <4>2
      <3>3. q < n => c[k] = ByteAt(o.disk, x, q)
        <4>1. q < n => k \in 1 .. n
          BY <3>1
        <4>2. QED
          BY <1>29, <3>1, <4>1
      <3>4. SplicedByte(c, p, b, k) = ByteAfter(o.disk, x, p, b, q)
        BY <1>28, <3>1, <3>3, Zenon DEF SplicedByte, ByteAfter
      <3>5. QED
        BY <2>3, <3>2, <3>4
    <2>5. v = sp
      BY <1>30, <2>2, <2>4, SameSeq
    <2>6. z = p + l - 2
      BY <1>17, <1>35
    <2>7. p + l <= n => t.used = s.used
      BY <1>3, <1>19, <1>35 DEF Frame
    <2>8. /\ Contents(t, f) = Store!Spliced(c, p, b) /\ t.table[f].pos = p + Len(b) - 2
          /\ p + Len(b) <= Len(c) => t.used = s.used
      BY <1>19, <1>26, <1>28, <1>32, <2>1, <2>5, <2>6, <2>7
    <2>9. QED
      BY <1>37, <2>8, Zenon DEF Wrote
  <1>36. Wrote(s, f, Terminated(bytes), t)
    BY <1>7, <1>33, <1>34, <1>35
  <1>38. \A j \in Sector \ t.used : t.disk[j] = s.disk[j]
    BY <1>3, <1>11, <1>12, <1>19 DEF Frame, Rewrites
  <1>39. ASSUME NEW g \in Files(s) PROVE Begins(Mem(s, g), Mem(t, g))
    <2>1. Mem(o, g) = Mem(s, g)
      BY <1>1, <1>39, OpenedMem
    <2>2. Mem(t, g) = Mem(m, g)
      <3>1. t.inodes = m.inodes /\ t.disk = m.disk
        BY <1>13, <1>14, <1>16, <1>17, <1>18, MovedKeeps DEF Frame
      <3>2. QED
        BY <1>20, <3>1 DEF Mem, InMemory
    <2>3. CASE g = f
      <3>1. Mem(m, g) = y
        BY <1>3, <1>11, <1>12, <1>13, <2>3, RewritesKeeps
      <3>2. QED
        BY <1>11, <2>1, <2>2, <2>3, <3>1 DEF Rewrites
    <2>4. CASE g # f
      <3>1. Mem(m, g) = Mem(o, g)
        BY <1>3, <1>4, <1>11, <1>12, <1>13, <2>4, RewritesKeeps
      <3>2. QED
        BY <2>1, <2>2, <3>1 DEF Begins
    <2>5. QED
      BY <2>3, <2>4
  <1>40. Rests(s, t)
    BY <1>38, <1>39 DEF Rests
  <1>21. QED
    BY <1>3, <1>4, <1>14, <1>16, <1>19, <1>20, <1>36, <1>40

-----------------------------------------------------------------------------
(* The commands on one file.                                               *)
LEMMA ServesTwice ==
  ASSUME NEW s, NEW f, NEW t, NEW u, Serves(s, f, t), Serves(t, f, u)
  PROVE  Serves(s, f, u)
  <1>1. /\ Good(u) /\ (Clean(s) => Clean(u)) /\ u.dir = s.dir /\ Files(u) = Files(s)
        /\ DOMAIN u.table = DOMAIN s.table \cup {f}
    BY DEF Serves
  <1>2. \A g : InodeOf(u, g) = InodeOf(s, g)
    BY DEF Serves
  <1>3. \A g \in DOMAIN s.table : g # f => u.table[g] = s.table[g]
    BY DEF Serves
  <1>4. \A F : f \notin F /\ Alive(s, F) => Alive(u, F)
    BY DEF Serves
  <1>5. QED
    BY <1>1, <1>2, <1>3, <1>4 DEF Serves

(* Two steps that leave the disk alone.                                    *)
LEMMA FrameTwice ==
  ASSUME NEW s, NEW t, NEW u, Frame(s, t), Frame(t, u)
  PROVE  Frame(s, u)
  BY DEF Frame

(* Opening a file serves it.                                               *)
LEMMA OpenedServes ==
  ASSUME NEW s, Good(s), NEW f \in Files(s), NEW t, t = Opened(s, f)
  PROVE  /\ Serves(s, f, t) /\ Frame(s, t)
         /\ t.table[f].pos = PositionIn(s, f) /\ Mem(t, f) = Mem(s, f)
  <1>1. ASSUME NEW F PROVE Alive(s, F) => Alive(t, F)
    BY OpenedKeeps
  <1>2. /\ Good(t) /\ Frame(s, t)
        /\ DOMAIN t.table = DOMAIN s.table \cup {f}
        /\ \A g \in DOMAIN s.table : t.table[g] = s.table[g]
        /\ Clean(s) => Clean(t)
        /\ Mem(t, f) = Mem(s, f)
    BY OpenedKeeps
  <1>3. t.table[f].pos = PositionIn(s, f)
    BY OpenedKeeps DEF PositionIn
  <1>4. Files(t) = Files(s) /\ \A g : InodeOf(t, g) = InodeOf(s, g)
    BY <1>2, FrameFiles
  <1>5. t.dir = s.dir
    BY <1>2 DEF Frame
  <1>6. Serves(s, f, t)
    BY <1>1, <1>2, <1>4, <1>5 DEF Serves
  <1>7. QED
    BY <1>2, <1>3, <1>6

(* file_seek.                                                              *)
LEMMA SeekServes ==
  ASSUME NEW s, Good(s), NEW f \in Files(s), NEW p \in Int, NEW t, t = Moved(Opened(s, f), f, p)
  PROVE  /\ Serves(s, f, t) /\ Frame(s, t) /\ f \in DOMAIN t.table /\ t.table[f].pos = p
  <1>1. PICK o : o = Opened(s, f)
    OBVIOUS
  <1>2. Serves(s, f, o) /\ Frame(s, o)
    BY <1>1, OpenedServes
  <1>3. Good(o) /\ f \in DOMAIN o.table
    BY <1>2 DEF Serves
  <1>4. Serves(o, f, t) /\ Frame(o, t) /\ t.table[f].pos = p
    BY <1>1, <1>3, MovedKeeps
  <1>5. Serves(s, f, t) /\ Frame(s, t)
    BY <1>2, <1>4, ServesTwice, FrameTwice
  <1>6. f \in DOMAIN t.table
    BY <1>5 DEF Serves
  <1>7. QED
    BY <1>4, <1>5, <1>6

(* file_read.                                                              *)
LEMMA ReadFromServes ==
  ASSUME NEW s, Good(s), NEW f \in Files(s), NEW F, Alive(s, F), f \notin F,
         PositionIn(s, f) \in Nat, NEW n \in Nat, NEW t, t = ReadFrom(s, f, n)
  PROVE  /\ Serves(s, f, t) /\ Frame(s, t) /\ PositionIn(t, f) \in Nat
         /\ Reading(s, f, n) \in Seq(Byte) /\ Len(Reading(s, f, n)) <= n
         /\ t.table[f].pos = PositionIn(s, f) + Len(Reading(s, f, n))
  <1>1. PICK o : o = Opened(s, f)
    OBVIOUS
  <1>2. PICK p \in Nat : p = PositionIn(s, f)
    OBVIOUS
  <1>3. Serves(s, f, o) /\ Frame(s, o) /\ o.table[f].pos = p
    BY <1>1, <1>2, OpenedServes
  <1>4. Good(o) /\ f \in DOMAIN o.table /\ f \in Files(o) /\ Alive(o, F)
    BY <1>3 DEF Serves
  <1>5. PICK i : i = InodeOf(o, f)
    OBVIOUS
  <1>6. o.table[f].inode = i /\ o.inodes[i] # NotOpen
    BY <1>4, <1>5 DEF Good, Held, Alive
  <1>7. PICK x \in InodeRec : x = o.inodes[i]
    BY <1>4, <1>5, <1>6, MemFacts
  <1>8. o.disk \in [Sector -> Record]
    BY <1>4, StateFields DEF Good
  <1>9. PICK b : b = Reading(s, f, n)
    OBVIOUS
  <1>10. b = Bytes(o.disk, x, p, n)
    BY <1>1, <1>3, <1>6, <1>7, <1>9, Zenon DEF Reading
  <1>11. b \in Seq(Byte) /\ Len(b) <= n
    BY <1>8, <1>10, BytesType
  <1>12. PICK z \in Nat : z = p + Len(b)
    BY <1>11
  <1>13. t = Moved(o, f, z)
    BY <1>1, <1>3, <1>9, <1>12, Zenon DEF ReadFrom
  <1>14. Serves(o, f, t) /\ Frame(o, t) /\ t.table[f].pos = z
    BY <1>4, <1>13, MovedKeeps
  <1>15. Serves(s, f, t) /\ Frame(s, t)
    BY <1>3, <1>14, ServesTwice, FrameTwice
  <1>16. PositionIn(t, f) = z
    BY <1>14 DEF Serves, PositionIn
  <1>17. QED
    BY <1>2, <1>9, <1>11, <1>12, <1>14, <1>15, <1>16

(* The size of a file is a natural number.                                 *)
LEMMA SizeOfType ==
  ASSUME NEW s, Good(s), NEW f \in Files(s)
  PROVE  SizeOf(s, f) \in 0 .. MaxLength /\ SizeOf(s, f) \in Nat /\ SizeOf(s, f) = Mem(s, f).len
  <1>1. Mem(s, f) \in InodeRec
    BY MemFacts
  <1>2. SizeOf(s, f) = Mem(s, f).len
    BY DEF SizeOf, Mem
  <1>3. QED
    BY <1>1, <1>2, InodeFields

\* `bytes` is what reading n bytes of f delivers.
Delivers(s, f, n, bytes) ==
  LET rest == Store!From(Contents(s, f), PositionIn(s, f))
  IN /\ bytes = SubSeq(rest, 1, Len(bytes))
     /\ n >= SizeOf(s, f) => bytes = rest

(* file_read delivers the bytes of the file from its position.             *)
LEMMA ReadingIs ==
  ASSUME NEW s, Good(s), NEW f \in Files(s), NEW F, Alive(s, F), f \notin F,
         PositionIn(s, f) \in Nat, NEW n \in Nat
  PROVE  Delivers(s, f, n, Reading(s, f, n))
  <1>1. PICK o : o = Opened(s, f)
    OBVIOUS
  <1>2. PICK p \in Nat : p = PositionIn(s, f)
    OBVIOUS
  <1>3. Serves(s, f, o) /\ Frame(s, o) /\ o.table[f].pos = p /\ Mem(o, f) = Mem(s, f)
    BY <1>1, <1>2, OpenedServes
  <1>4. Good(o) /\ f \in DOMAIN o.table /\ f \in Files(o) /\ Alive(o, F)
    BY <1>3 DEF Serves
  <1>5. PICK i : i = InodeOf(o, f)
    OBVIOUS
  <1>6. o.table[f].inode = i /\ o.inodes[i] # NotOpen
    BY <1>4, <1>5 DEF Good, Held, Alive
  <1>7. PICK x \in InodeRec : x = o.inodes[i] /\ x = Mem(s, f)
    BY <1>3, <1>4, <1>5, <1>6, MemFacts
  <1>8. PICK d \in [Sector -> Record] : d = o.disk /\ d = s.disk
    BY <1>3, <1>4, StateFields DEF Good, Frame
  <1>9. PICK b : b = Reading(s, f, n)
    OBVIOUS
  <1>10. b = Bytes(d, x, p, n)
    BY <1>1, <1>3, <1>6, <1>7, <1>8, <1>9, Zenon DEF Reading
  <1>11. PICK l \in Nat : l = x.len
    BY <1>7, ContentsAre
  <1>12. /\ b \in Seq(Byte)
         /\ Len(b) = IF n <= l - p THEN n ELSE IF p <= l THEN l - p ELSE 0
         /\ \A k \in 1 .. Len(b) : b[k] = ByteAt(d, x, p + k - 1)
    <2>1. Bytes(d, x, p, n) \in Seq(Byte)
      BY <1>11, BytesAre
    <2>2. Len(Bytes(d, x, p, n)) = IF n <= l - p THEN n ELSE IF p <= l THEN l - p ELSE 0
      BY <1>11, BytesAre
    <2>3. \A k \in 1 .. Len(Bytes(d, x, p, n)) : Bytes(d, x, p, n)[k] = ByteAt(d, x, p + k - 1)
      BY <1>11, BytesAre
    <2>4. QED
      BY <1>10, <2>1, <2>2, <2>3, Zenon
  <1>13. PICK c \in Seq(Byte) : c = Contents(s, f)
    BY ContentsAre
  <1>14. Len(c) = l /\ \A k \in 1 .. l : c[k] = ByteAt(d, x, k - 1)
    BY <1>7, <1>8, <1>11, <1>13, ContentsAre
  <1>15. PICK rest : rest = Store!From(c, p)
    OBVIOUS
  <1>16. /\ rest \in Seq(Byte) /\ Len(rest) = IF p <= l THEN l - p ELSE 0
         /\ \A k \in 1 .. Len(rest) : rest[k] = c[p + k]
    <2>1. Len(rest) = IF p <= Len(c) THEN Len(c) - p ELSE 0
      BY <1>13, <1>15, FromIs
    <2>2. rest \in Seq(Byte)
      BY <1>13, <1>15, FromIs
    <2>3. \A k \in 1 .. Len(rest) : rest[k] = c[p + k]
      BY <1>13, <1>15, FromIs
    <2>4. QED
      BY <1>14, <2>1, <2>2, <2>3
  <1>17. PICK m \in Nat : m = Len(b)
    <2>1. b \in Seq(Byte)
      BY <1>12
    <2>2. QED
      BY <2>1
  <1>18. m \in 0 .. Len(rest) /\ (n >= l => m = Len(rest))
    <2>1. PICK v \in Nat : v = Len(rest)
      <3>1. rest \in Seq(Byte)
        BY <1>16
      <3>2. QED
        BY <3>1
    <2>2. m = IF n <= l - p THEN n ELSE IF p <= l THEN l - p ELSE 0
      BY <1>12, <1>17
    <2>3. v = IF p <= l THEN l - p ELSE 0
      BY <1>16, <2>1
    <2>4. m \in 0 .. v /\ (n >= l => m = v)
      BY <2>2, <2>3
    <2>5. QED
      BY <2>1, <2>4
  <1>19. ASSUME NEW k \in 1 .. m PROVE b[k] = rest[k]
    <2>1. p + k \in 1 .. l /\ k \in 1 .. Len(rest)
      BY <1>12, <1>16, <1>17, <1>18
    <2>2. rest[k] = c[p + k] /\ c[p + k] = ByteAt(d, x, p + k - 1)
      BY <1>14, <1>16, <2>1
    <2>3. QED
      BY <1>12, <1>17, <2>2
  <1>20. b = SubSeq(rest, 1, m)
    <2>1. /\ SubSeq(rest, 1, m) \in Seq(Byte) /\ Len(SubSeq(rest, 1, m)) = m
          /\ \A k \in 1 .. m : SubSeq(rest, 1, m)[k] = rest[k]
      BY <1>16, <1>18, FirstIs
    <2>2. QED
      BY <1>12, <1>17, <1>19, <2>1, SameSeq
  <1>21. n >= l => b = rest
    BY <1>12, <1>16, <1>17, <1>18, <1>19, SameSeq
  <1>22. SizeOf(s, f) = l
    BY <1>7, <1>11, SizeOfType
  <1>23. QED
    BY <1>2, <1>9, <1>13, <1>15, <1>17, <1>20, <1>21, <1>22, Zenon DEF Delivers

-----------------------------------------------------------------------------
(* Commands that leave the files alone.                                    *)
(* cat of a file that is open, and of one that is not.                     *)
LEMMA CatKeeps ==
  ASSUME NEW s, Good(s), NEW f \in Files(s), NEW F, Alive(s, F), f \notin F,
         NEW m, m = Moved(Opened(s, f), f, 0), NEW n, n = SizeOf(s, f),
         NEW r, r = ReadFrom(m, f, n),
         NEW t, t = IF f \in DOMAIN s.table THEN Moved(r, f, s.table[f].pos) ELSE Closed(r, f)
  PROVE  /\ Good(t) /\ DOMAIN t.table = DOMAIN s.table /\ Alive(t, F)
         /\ Reading(m, f, n) \in Seq(Byte)
         /\ Frame(s, t) /\ \A g \in DOMAIN s.table : t.table[g].pos = s.table[g].pos
  <1>1. Serves(s, f, m) /\ Frame(s, m) /\ f \in DOMAIN m.table /\ m.table[f].pos = 0
    BY SeekServes
  <1>2. Good(m) /\ f \in Files(m) /\ Alive(m, F)
    BY <1>1 DEF Serves
  <1>3. n \in Nat /\ PositionIn(m, f) \in Nat
    BY <1>1, SizeOfType DEF PositionIn
  <1>4. /\ Serves(m, f, r) /\ Frame(m, r)
        /\ Reading(m, f, n) \in Seq(Byte)
    BY <1>2, <1>3, ReadFromServes
  <1>5. Serves(s, f, r) /\ Frame(s, r)
    BY <1>1, <1>4, ServesTwice, FrameTwice
  <1>6. /\ Good(r) /\ f \in DOMAIN r.table /\ f \in Files(r) /\ Alive(r, F)
        /\ DOMAIN r.table = DOMAIN s.table \cup {f}
        /\ \A g \in DOMAIN s.table : g # f => r.table[g] = s.table[g]
    BY <1>5 DEF Serves
  <1>7. CASE f \in DOMAIN s.table
    <2>1. PICK p : p = s.table[f].pos
      OBVIOUS
    <2>2. p \in Int
      BY <1>7, <2>1, StateFields DEF Good, Handle
    <2>3. t = Moved(r, f, p)
      BY <1>7, <2>1
    <2>4. Serves(r, f, t) /\ Frame(r, t) /\ t.table[f].pos = p
      BY <1>6, <2>2, <2>3, MovedKeeps
    <2>5. Frame(s, t)
      BY <1>5, <2>4, FrameTwice
    <2>6. /\ Good(t) /\ DOMAIN t.table = DOMAIN s.table /\ Alive(t, F)
          /\ \A g \in DOMAIN r.table : g # f => t.table[g] = r.table[g]
      BY <1>4, <1>6, <1>7, <2>4 DEF Serves
    <2>7. \A g \in DOMAIN s.table : t.table[g].pos = s.table[g].pos
      BY <1>6, <2>1, <2>4, <2>6
    <2>8. QED
      BY <1>4, <2>5, <2>6, <2>7
  <1>8. CASE f \notin DOMAIN s.table
    <2>1. t = Closed(r, f)
      BY <1>8
    <2>2. /\ Good(t) /\ DOMAIN t.table = DOMAIN r.table \ {f} /\ Alive(t, F)
          /\ Frame(r, t) /\ \A g \in DOMAIN t.table : t.table[g] = r.table[g]
      BY <1>6, <2>1, ClosedAnyway
    <2>3. DOMAIN t.table = DOMAIN s.table
      BY <1>6, <1>8, <2>2
    <2>4. \A g \in DOMAIN s.table : t.table[g].pos = s.table[g].pos
      BY <1>6, <1>8, <2>2, <2>3
    <2>5. Frame(s, t)
      BY <1>5, <2>2, FrameTwice
    <2>6. QED
      BY <1>4, <2>2, <2>3, <2>4, <2>5
  <1>9. QED
    BY <1>7, <1>8

(* The string that bytes start with.                                       *)
LEMMA StringType ==
  ASSUME NEW bytes \in Seq(Byte)
  PROVE  String(bytes) \in Seq(Byte)
  <1>1. PICK k : k = UpToNul(bytes)
    OBVIOUS
  <1>2. CASE k = 0
    BY <1>1, <1>2 DEF String
  <1>3. CASE k # 0
    <2>1. k \in 1 .. Len(bytes)
      <3>1. PICK n \in Nat : n = Len(bytes)
        OBVIOUS
      <3>2. k \in 0 .. n
        <4> DEFINE A == {i \in 1 .. n : bytes[i] = Nul}
        <4>1. k = IF \E i \in 1 .. n : bytes[i] = Nul THEN Min(A) ELSE 0
          BY <1>1, <3>1 DEF UpToNul, SelectInSeq
        <4>2. k # 0 => A # {} /\ A \in SUBSET Nat /\ k = Min(A)
          BY <4>1
        <4> HIDE DEF A
        <4>3. k \in A
          BY <1>3, <4>2, MinFacts
        <4>4. QED
          BY <4>3 DEF A
      <3>3. QED
        BY <1>3, <3>1, <3>2
    <2>2. String(bytes) = SubSeq(bytes, 1, k - 1)
      BY <1>1, <1>3 DEF String
    <2>3. \A j \in 1 .. k - 1 : bytes[j] \in Byte
      BY <2>1
    <2>4. QED
      BY <2>1, <2>2, <2>3
  <1>4. QED
    BY <1>2, <1>3

-----------------------------------------------------------------------------
(* copy_in: what create answers is not looked at.                          *)
LEMMA CopyInKeeps ==
  ASSUME NEW s, Good(s), Clean(s), NEW f \in FileName, NEW F, Alive(s, F), f \notin F,
         PositionIn(s, f) \in Nat, NEW bytes \in Seq(Byte), Len(bytes) > 0,
         PositionIn(s, f) + Len(bytes) <= MaxLength,
         NEW made, made = Created(s, f, Len(bytes)),
         NEW t, t = IF f \in Files(made) THEN WroteTo(made, f, bytes) ELSE made
  PROVE  /\ Good(t) /\ Clean(t) /\ Alive(t, F)
         /\ DOMAIN s.table \subseteq DOMAIN t.table
         /\ Files(t) \subseteq Files(s) \cup {f}
  <1>1. PICK n \in 0 .. MaxLength : n = Len(bytes) /\ n > 0
    <2>1. PICK p \in Nat : p = PositionIn(s, f)
      OBVIOUS
    <2>2. PICK n \in Nat : n = Len(bytes)
      OBVIOUS
    <2>3. n > 0 /\ p + n <= MaxLength
      BY <2>1, <2>2
    <2>4. QED
      BY <2>2, <2>3, FilesAssumption
  <1>2. Creates(s, f, n, made)
    BY <1>1, CreatedKeeps
  <1>3. /\ Good(made) /\ Clean(made) /\ made.table = s.table /\ made.inodes = s.inodes
        /\ Files(made) \subseteq Files(s) \cup {f}
    BY <1>2 DEF Creates
  <1>4. Alive(made, F)
    <2>1. \A g \in DOMAIN s.table : g \in Files(s) /\ InodeOf(made, g) = InodeOf(s, g)
      BY <1>2 DEF Creates, Good, Held
    <2>2. QED
      BY <1>3, <2>1 DEF Alive
  <1>5. CASE f \in Files(made)
    <2>1. t = WroteTo(made, f, bytes)
      BY <1>5
    <2>2. PositionIn(made, f) = PositionIn(s, f)
      BY <1>3 DEF PositionIn
    <2>3. PICK p \in Nat : p = PositionIn(made, f)
      BY <2>2
    <2>4. p + n <= MaxLength /\ p + n # 0
      BY <1>1, <2>2, <2>3
    <2>5. /\ PositionIn(made, f) \in Nat /\ PositionIn(made, f) + Len(bytes) <= MaxLength
          /\ PositionIn(made, f) + Len(bytes) = 0 => Mem(made, f).len = 0
      BY <1>1, <2>3, <2>4
    <2>6. /\ Good(t) /\ Clean(t) /\ DOMAIN t.table = DOMAIN made.table \cup {f} /\ Alive(t, F)
          /\ Files(t) = Files(made)
      BY <1>3, <1>4, <1>5, <2>1, <2>5, WroteToKeeps
    <2>7. QED
      BY <1>3, <2>6
  <1>6. CASE f \notin Files(made)
    BY <1>3, <1>4, <1>6
  <1>7. QED
    BY <1>5, <1>6

(* The inodes of the handles in `hit` go, and the handles stay.            *)
Drops(s, hit, t) ==
  /\ t \in State /\ Frame(s, t) /\ t.table = s.table
  /\ \A i \in Sector : \/ t.inodes[i] = s.inodes[i]
                       \/ t.inodes[i] = NotOpen /\ \E f \in hit : s.table[f].inode = i

(* Dropping inodes from memory keeps the invariant, and leaves the other   *)
(* handles alive.                                                          *)
LEMMA DropsKeeps ==
  ASSUME NEW s, Good(s), NEW hit \in SUBSET (DOMAIN s.table), NEW t, Drops(s, hit, t),
         NEW F, Alive(s, F)
  PROVE  /\ Good(t) /\ Alive(t, F \cup hit) /\ Frame(s, t) /\ (Clean(s) => Clean(t))
  <1>1. t \in State /\ Frame(s, t) /\ t.table = s.table
    BY DEF Drops
  <1>2. Files(t) = Files(s) /\ \A f : InodeOf(t, f) = InodeOf(s, f)
    BY <1>1, FrameFiles
  <1>3. Held(t)
    BY <1>1, <1>2 DEF Good, Held
  <1>4. \A i \in Sector : t.inodes[i] # NotOpen => s.inodes[i] # NotOpen
    BY DEF Drops
  <1>5. Owners(t)
    <2>1. t.used = s.used /\ s.used \subseteq Sector
      BY <1>1, StateFields DEF Frame, Good
    <2>2. QED
      BY <1>1, <1>4, <2>1 DEF Good, Owners
  <1>6. \A i \in Sector : t.inodes[i] \in {s.inodes[i], NotOpen, s.disk[i]}
    BY DEF Drops
  <1>7. Good(t)
    BY <1>1, <1>3, <1>5, <1>6, MemoryKeeps
  <1>8. Alive(t, F \cup hit)
    <2>1. SUFFICES ASSUME NEW g \in DOMAIN t.table, g \notin F \cup hit
                   PROVE  t.inodes[InodeOf(t, g)] # NotOpen
      BY DEF Alive
    <2>2. PICK i : i = InodeOf(s, g)
      OBVIOUS
    <2>3. g \in DOMAIN s.table /\ g \in Files(s) /\ s.table[g].inode = i /\ s.inodes[i] # NotOpen
      BY <1>1, <2>1, <2>2 DEF Good, Held, Alive
    <2>4. i \in Sector
      BY <2>2, <2>3, MemFacts
    <2>5. ASSUME NEW f \in hit PROVE s.table[f].inode # i
      <3>1. f \in Files(s) /\ s.table[f].inode = InodeOf(s, f)
        BY <2>5 DEF Good, Held
      <3>2. f # g
        BY <2>1, <2>5
      <3>3. QED
        BY <2>2, <2>3, <3>1, <3>2 DEF Good, Named
    <2>6. t.inodes[i] = s.inodes[i]
      BY <2>4, <2>5 DEF Drops
    <2>7. QED
      BY <1>2, <2>2, <2>3, <2>6
  <1>9. Clean(s) => Clean(t)
    <2>1. t.used = s.used
      BY <1>1 DEF Frame
    <2>2. QED
      BY <1>2, <1>4, <2>1 DEF Clean
  <1>10. QED
    BY <1>1, <1>7, <1>8, <1>9

(* What Dropped does is to drop the inodes of some handles.                *)
LEMMA DroppedDrops ==
  ASSUME NEW s \in State, NEW hit, NEW t, t = Dropped(s, hit)
  PROVE  Drops(s, hit, t)
  <1> DEFINE m == [i \in Sector |->
                     IF \E f \in hit : s.table[f].inode = i THEN NotOpen ELSE s.inodes[i]]
  <1>1. t = PutInodes(s, m)
    BY DEF Dropped, PutInodes
  <1>2. s.inodes \in [Sector -> Record \cup {NotOpen}]
    BY StateFields
  <1>3. m \in [Sector -> Record \cup {NotOpen}]
    BY <1>2
  <1>4. \A i \in Sector : m[i] = s.inodes[i] \/ (m[i] = NotOpen /\ \E f \in hit : s.table[f].inode = i)
    OBVIOUS
  <1> HIDE DEF m
  <1>5. /\ t \in State /\ t.inodes = m /\ t.used = s.used
        /\ t.disk = s.disk /\ t.dir = s.dir /\ t.table = s.table
    BY <1>1, <1>3, WithInodes
  <1>6. QED
    BY <1>4, <1>5 DEF Drops, Frame

(* A new shell on the same disk.                                           *)
LEMMA RestartKeeps ==
  ASSUME NEW s, Good(s), NEW t, t.used = s.used, t.disk = s.disk, t.dir = s.dir,
         t.inodes = [i \in Sector |-> NotOpen], t.table = <<>>, t \in State
  PROVE  Good(t) /\ \A F : Alive(t, F)
  <1>1. Frame(s, t)
    BY DEF Frame
  <1>2. DOMAIN t.table = {}
    OBVIOUS
  <1>3. \A i \in Sector : t.inodes[i] = NotOpen
    OBVIOUS
  <1>4. t.used \subseteq Sector
    BY StateFields
  <1>5. Held(t)
    BY <1>2 DEF Held
  <1>6. Owners(t)
    BY <1>3, <1>4 DEF Owners
  <1>7. Good(t)
    BY <1>1, <1>3, <1>5, <1>6, MemoryKeeps
  <1>8. QED
    BY <1>2, <1>7 DEF Alive

-----------------------------------------------------------------------------
(* The commands on every file: the listing names each file once.           *)
Among(q) == {q[j] : j \in 1 .. Len(q)}

(* A sequence with one more element.                                       *)
LEMMA AppendedFacts ==
  ASSUME NEW S, NEW q \in Seq(S), NEW x \in S, Injective(q), x \notin Among(q)
  PROVE  /\ Append(q, x) \in Seq(S) /\ Injective(Append(q, x))
         /\ Among(Append(q, x)) = Among(q) \cup {x}
  <1>1. PICK n \in Nat : n = Len(q)
    OBVIOUS
  <1>2. PICK r : r = Append(q, x)
    OBVIOUS
  <1>3. r \in Seq(S) /\ Len(r) = n + 1 /\ r[n + 1] = x /\ \A j \in 1 .. n : r[j] = q[j]
    BY <1>1, <1>2
  <1>4. \A j \in 1 .. n + 1 : j \in 1 .. n \/ j = n + 1
    OBVIOUS
  <1>5. \A j \in 1 .. n : q[j] # x
    BY <1>1 DEF Among
  <1>6. Injective(r)
    BY <1>1, <1>3, <1>4, <1>5 DEF Injective
  <1>7. ASSUME NEW y PROVE y \in Among(r) <=> y \in Among(q) \cup {x}
    <2>1. y \in Among(r) => y \in Among(q) \cup {x}
      BY <1>1, <1>3, <1>4 DEF Among
    <2>2. y \in Among(q) => y \in Among(r)
      <3>1. \A j \in 1 .. n : j \in 1 .. n + 1
        OBVIOUS
      <3>2. QED
        BY <1>1, <1>3, <3>1 DEF Among
    <2>3. x \in Among(r)
      <3>1. n + 1 \in 1 .. n + 1
        OBVIOUS
      <3>2. QED
        BY <1>3, <3>1 DEF Among
    <2>4. QED
      BY <2>1, <2>2, <2>3
  <1>8. QED
    BY <1>2, <1>3, <1>6, <1>7

\* q names the entries up to slot k.
Lists(d, k, q) ==
  /\ q \in Seq(FileName) /\ Injective(q)
  /\ \A y : y \in Among(q) <=> \E j \in Slots(d) : j <= k /\ d[j].name = y

(* The listing, one slot further.                                          *)
LEMMA ListsNext ==
  ASSUME NEW d \in Seq({NoEntry} \cup DirEntry), Distinct(d), NEW k \in Nat, k + 1 \in 1 .. Len(d),
         NEW q, Lists(d, k, q)
  PROVE  Lists(d, k + 1, NameStep(0, q, d[k + 1]))
  <1>1. PICK x : x = d[k + 1]
    OBVIOUS
  <1>2. k + 1 \in DOMAIN d /\ \A j \in Slots(d) : j \in Nat /\ (j <= k + 1 <=> j <= k \/ j = k + 1)
    BY DEF Slots
  <1>3. CASE x.kind = "entry"
    <2>1. k + 1 \in Slots(d)
      BY <1>1, <1>2, <1>3 DEF Slots
    <2>2. PICK f \in FileName : f = x.name
      <3>1. x \in DirEntry
        BY <1>1, <1>3 DEF NoEntry
      <3>2. QED
        BY <3>1 DEF DirEntry
    <2>3. f \notin Among(q)
      <3>1. SUFFICES ASSUME NEW j \in Slots(d), j <= k, d[j].name = f PROVE FALSE
        BY DEF Lists
      <3>2. j = k + 1
        BY <1>1, <2>1, <2>2, <3>1 DEF Distinct
      <3>3. QED
        BY <3>1, <3>2
    <2>4. PICK r : r = Append(q, f)
      OBVIOUS
    <2>5. r \in Seq(FileName) /\ Injective(r) /\ Among(r) = Among(q) \cup {f}
      BY <2>3, <2>4, AppendedFacts DEF Lists
    <2>6. \A y : y \in Among(r) <=> \E j \in Slots(d) : j <= k + 1 /\ d[j].name = y
      BY <1>1, <1>2, <2>1, <2>2, <2>5 DEF Lists
    <2>7. NameStep(0, q, x) = r
      BY <1>3, <2>2, <2>4 DEF NameStep
    <2>8. QED
      BY <1>1, <2>5, <2>6, <2>7 DEF Lists
  <1>4. CASE x.kind # "entry"
    <2>1. k + 1 \notin Slots(d)
      BY <1>1, <1>4 DEF Slots
    <2>2. NameStep(0, q, x) = q
      BY <1>4 DEF NameStep
    <2>3. \A j \in Slots(d) : j <= k + 1 <=> j <= k
      BY <1>2, <2>1
    <2>4. QED
      BY <1>1, <2>2, <2>3 DEF Lists
  <1>5. QED
    BY <1>3, <1>4

(* The listing names every file once, and nothing else.                    *)
LEMMA ListingFacts ==
  ASSUME NEW s \in State, Distinct(s.dir)
  PROVE  /\ Listing(s) \in Seq(FileName) /\ Injective(Listing(s))
         /\ Among(Listing(s)) = Files(s)
  <1>1. PICK d \in Seq({NoEntry} \cup DirEntry) : d = s.dir
    BY StateFields
  <1>2. PICK n \in Nat : n = Len(d) /\ DOMAIN d = 1 .. n
    OBVIOUS
  <1>3. Listing(s) = NameFold!Folded(0, <<>>, d)
    BY <1>1 DEF Listing, FoldLeft, MapThenFoldSet, NameFold!Folded, NameFold!Max, Max, NameStep
  <1>4. PICK h : NameFold!Traces(0, <<>>, d, n, h)
    BY <1>2, NameFold!FoldSteps
  <1>4a. /\ h[0] = <<>>
         /\ \A k \in 1 .. n : h[k] = NameStep(0, h[k - 1], d[k])
         /\ NameFold!Folded(0, <<>>, d) = h[n]
    BY <1>4 DEF NameFold!Traces
  <1> DEFINE A == {k \in 0 .. n : Lists(d, k, h[k])}
  <1>5. 0 \in A
    <2>1. <<>> \in Seq(FileName) /\ Len(<<>>) = 0
      OBVIOUS
    <2>2. Injective(<<>>) /\ \A y : y \notin Among(<<>>)
      BY <2>1 DEF Injective, Among
    <2>3. \A j \in Slots(d) : ~(j <= 0)
      BY <1>2 DEF Slots
    <2>4. Lists(d, 0, <<>>)
      BY <2>1, <2>2, <2>3 DEF Lists
    <2>5. QED
      BY <1>4a, <2>4
  <1>6. ASSUME NEW k \in 0 .. n - 1, k \in A PROVE k + 1 \in A
    <2>1. k \in Nat /\ k + 1 \in 1 .. n /\ k + 1 \in 0 .. n /\ (k + 1) - 1 = k
      OBVIOUS
    <2>2. Lists(d, k + 1, NameStep(0, h[k], d[k + 1]))
      BY <1>1, <1>2, <1>6, <2>1, ListsNext
    <2>3. h[k + 1] = NameStep(0, h[k], d[k + 1])
      BY <1>4a, <2>1
    <2>4. QED
      BY <2>1, <2>2, <2>3
  <1>7. Lists(d, n, h[n])
    <2> HIDE DEF A
    <2>1. \A k \in 0 .. n : k \in A
      BY <1>5, <1>6, NameFold!CountingUp
    <2>2. QED
      BY <2>1 DEF A
  <1>8. PICK q : q = Listing(s)
    OBVIOUS
  <1>9. Lists(d, n, q)
    BY <1>3, <1>4a, <1>7, <1>8
  <1>10. \A j \in Slots(d) : j <= n
    BY <1>2 DEF Slots
  <1>11. Among(q) = Files(s)
    BY <1>1, <1>9, <1>10, FilesAre DEF Lists
  <1>12. QED
    BY <1>8, <1>9, <1>11 DEF Lists

ReadStep(e, s, f) == ReadFrom(s, f, SizeOf(s, f))
ReadFold == INSTANCE FoldFacts WITH Op <- ReadStep

\* The end of f, or its position when that is further on.
EndOf(s, f) == PositionIn(s, f) + Len(Store!From(Contents(s, f), PositionIn(s, f)))

\* t is s after reading the first k files of q.
ReadSome(s, q, k, t) ==
  /\ Good(t) /\ Frame(s, t) /\ (Clean(s) => Clean(t)) /\ Alive(t, {})
  /\ \A g \in Files(s) : PositionIn(t, g) \in Nat
  /\ \A j \in 1 .. k : q[j] \in DOMAIN t.table /\ t.table[q[j]].pos = EndOf(s, q[j])
  /\ \A j \in k + 1 .. Len(q) : PositionIn(t, q[j]) = PositionIn(s, q[j])

(* One more file read.                                                     *)
LEMMA ReadSomeMore ==
  ASSUME NEW s, Good(s), NEW q, Injective(q), NEW l \in Nat, l = Len(q), NEW k \in 0 .. l - 1,
         NEW t, ReadSome(s, q, k, t), NEW f \in Files(s), f = q[k + 1]
  PROVE  ReadSome(s, q, k + 1, ReadStep(0, t, f))
  <1>1. PICK u : u = ReadStep(0, t, f)
    OBVIOUS
  <1>2. PICK n : n = SizeOf(t, f)
    OBVIOUS
  <1>3. Good(t) /\ f \in Files(t) /\ Files(t) = Files(s) /\ Alive(t, {}) /\ PositionIn(t, f) \in Nat
    BY FrameFiles DEF ReadSome
  <1>4. n \in Nat
    BY <1>2, <1>3, SizeOfType
  <1>5. u = ReadFrom(t, f, n)
    BY <1>1, <1>2 DEF ReadStep
  <1>6. /\ Serves(t, f, u) /\ Frame(t, u) /\ PositionIn(u, f) \in Nat
        /\ u.table[f].pos = PositionIn(t, f) + Len(Reading(t, f, n))
        /\ Delivers(t, f, n, Reading(t, f, n))
    <2>1. f \notin {}
      OBVIOUS
    <2>2. Delivers(t, f, n, Reading(t, f, n))
      BY <1>3, <1>4, <2>1, ReadingIs
    <2>3. QED
      BY <1>3, <1>4, <1>5, <2>1, <2>2, ReadFromServes
  <1>7. Frame(s, u)
    BY <1>6, FrameTwice DEF ReadSome
  <1>8. ASSUME NEW g \in Files(s) PROVE PositionIn(u, g) \in Nat
    <2>1. CASE g = f
      BY <1>6, <2>1
    <2>2. CASE g # f
      <3>1. PositionIn(u, g) = PositionIn(t, g)
        BY <1>6, <2>2 DEF Serves, PositionIn
      <3>2. QED
        BY <3>1 DEF ReadSome
    <2>3. QED
      BY <2>1, <2>2
  <1>9. Good(u) /\ (Clean(t) => Clean(u)) /\ Alive(u, {})
    BY <1>3, <1>6 DEF Serves
  <1>11. u.table[f].pos = EndOf(s, f)
    <2>1. PositionIn(t, f) = PositionIn(s, f)
      <3>1. k + 1 \in k + 1 .. Len(q)
        OBVIOUS
      <3>2. QED
        BY <3>1 DEF ReadSome
    <2>2. Contents(t, f) = Contents(s, f)
      BY <1>3, FrameContent DEF ReadSome, KeepsBytes
    <2>3. n >= SizeOf(t, f)
      BY <1>2, <1>4
    <2>4. Reading(t, f, n) = Store!From(Contents(t, f), PositionIn(t, f))
      BY <1>6, <2>3 DEF Delivers
    <2>5. QED
      BY <1>6, <2>1, <2>2, <2>4 DEF EndOf
  <1>12. ASSUME NEW j \in 1 .. k + 1
         PROVE  q[j] \in DOMAIN u.table /\ u.table[q[j]].pos = EndOf(s, q[j])
    <2>1. CASE j = k + 1
      BY <1>6, <1>11, <2>1 DEF Serves
    <2>2. CASE j # k + 1
      <3>1. j \in 1 .. k /\ q[j] # f
        <4>1. j \in 1 .. Len(q) /\ k + 1 \in 1 .. Len(q) /\ j \in 1 .. k
          BY <2>2
        <4>2. QED
          BY <2>2, <4>1 DEF Injective
      <3>2. q[j] \in DOMAIN t.table /\ t.table[q[j]].pos = EndOf(s, q[j])
        BY <3>1 DEF ReadSome
      <3>3. QED
        BY <1>6, <3>1, <3>2 DEF Serves
    <2>3. QED
      BY <2>1, <2>2
  <1>13. ASSUME NEW j \in (k + 1) + 1 .. Len(q)
         PROVE  PositionIn(u, q[j]) = PositionIn(s, q[j])
    <2>1. j \in 1 .. Len(q) /\ k + 1 \in 1 .. Len(q) /\ j # k + 1 /\ j \in k + 1 .. Len(q)
      OBVIOUS
    <2>2. q[j] # f
      BY <2>1 DEF Injective
    <2>3. PositionIn(t, q[j]) = PositionIn(s, q[j])
      BY <2>1 DEF ReadSome
    <2>4. QED
      BY <1>6, <2>2, <2>3 DEF Serves, PositionIn
  <1>10. QED
    BY <1>1, <1>7, <1>8, <1>9, <1>12, <1>13 DEF ReadSome

(* Reading every file keeps the invariant.                                 *)
LEMMA ReadAllKeeps ==
  ASSUME NEW s, Good(s), Alive(s, {}), \A g \in Files(s) : PositionIn(s, g) \in Nat,
         NEW t, t = ReadAll(s)
  PROVE  ReadSome(s, Listing(s), Len(Listing(s)), t)
  <1>1. s \in State /\ Distinct(s.dir)
    BY DEF Good, Named
  <1>2. PICK q \in Seq(FileName) : q = Listing(s) /\ Among(q) = Files(s) /\ Injective(q)
    BY <1>1, ListingFacts
  <1>3. PICK n \in Nat : n = Len(q) /\ DOMAIN q = 1 .. n
    OBVIOUS
  <1>4. t = ReadFold!Folded(0, s, q)
    BY <1>2 DEF ReadAll, FoldLeft, MapThenFoldSet, ReadFold!Folded, ReadFold!Max, Max, ReadStep
  <1>5. PICK h : ReadFold!Traces(0, s, q, n, h)
    BY <1>3, ReadFold!FoldSteps
  <1>5a. /\ h[0] = s
         /\ \A k \in 1 .. n : h[k] = ReadStep(0, h[k - 1], q[k])
         /\ ReadFold!Folded(0, s, q) = h[n]
    BY <1>5 DEF ReadFold!Traces
  <1> DEFINE A == {k \in 0 .. n : ReadSome(s, q, k, h[k])}
  <1>6. 0 \in A
    BY <1>5a DEF ReadSome, Frame
  <1>7. ASSUME NEW k \in 0 .. n - 1, k \in A PROVE k + 1 \in A
    <2>1. k + 1 \in 1 .. n /\ k + 1 \in 0 .. n /\ (k + 1) - 1 = k
      OBVIOUS
    <2>2. q[k + 1] \in Files(s)
      BY <1>2, <1>3, <2>1 DEF Among
    <2>3. ReadSome(s, q, k + 1, ReadStep(0, h[k], q[k + 1]))
      BY <1>2, <1>3, <1>7, <2>2, ReadSomeMore
    <2>4. h[k + 1] = ReadStep(0, h[k], q[k + 1])
      BY <1>5a, <2>1
    <2>5. QED
      BY <2>1, <2>3, <2>4
  <1>8. ReadSome(s, q, n, h[n])
    <2> HIDE DEF A
    <2>1. \A k \in 0 .. n : k \in A
      BY <1>6, <1>7, NameFold!CountingUp
    <2>2. QED
      BY <2>1 DEF A
  <1>9. QED
    BY <1>2, <1>3, <1>4, <1>5a, <1>8

OpenStep(e, s, f) == Opened(s, f)
OpenFold == INSTANCE FoldFacts WITH Op <- OpenStep

\* What fragmentation_degree makes of s.
OpenedAll(s) == FoldLeft(LAMBDA t, f : Opened(t, f), s, Listing(s))

\* t is s with the first k files of q open.
OpenSome(s, F, q, k, t) ==
  /\ Good(t) /\ Frame(s, t) /\ (Clean(s) => Clean(t)) /\ Alive(t, F)
  /\ DOMAIN s.table \subseteq DOMAIN t.table
  /\ \A g \in DOMAIN t.table : t.table[g].pos = PositionIn(s, g)
  /\ \A j \in 1 .. k : q[j] \in DOMAIN t.table

(* One more file open.                                                     *)
LEMMA OpenSomeMore ==
  ASSUME NEW s, NEW F, NEW q, NEW k \in Nat, NEW t, OpenSome(s, F, q, k, t),
         NEW f \in Files(s), f = q[k + 1]
  PROVE  OpenSome(s, F, q, k + 1, OpenStep(0, t, f))
  <1>1. PICK u : u = Opened(t, f)
    OBVIOUS
  <1>2. Good(t) /\ f \in Files(t) /\ Alive(t, F)
    BY FrameFiles DEF OpenSome
  <1>3. /\ Good(u) /\ Frame(t, u) /\ DOMAIN u.table = DOMAIN t.table \cup {f}
        /\ Clean(t) => Clean(u)
        /\ Alive(t, F) => Alive(u, F)
        /\ u.table[f].pos = IF f \in DOMAIN t.table THEN t.table[f].pos ELSE 0
        /\ \A g \in DOMAIN t.table : u.table[g] = t.table[g]
    BY <1>1, <1>2, OpenedKeeps
  <1>4a. \A g \in DOMAIN u.table : u.table[g].pos = PositionIn(s, g)
    <2>1. \A g \in DOMAIN t.table : u.table[g].pos = PositionIn(s, g)
      BY <1>3 DEF OpenSome
    <2>2. ASSUME f \notin DOMAIN t.table PROVE u.table[f].pos = PositionIn(s, f)
      <3>1. f \notin DOMAIN s.table
        BY <2>2 DEF OpenSome
      <3>2. QED
        BY <1>3, <2>2, <3>1 DEF PositionIn
    <2>3. QED
      BY <1>3, <2>1, <2>2
  <1>4b. \A j \in 1 .. k + 1 : q[j] \in DOMAIN u.table
    <2>1. ASSUME NEW j \in 1 .. k + 1 PROVE q[j] \in DOMAIN u.table
      <3>1. j \in 1 .. k \/ j = k + 1
        OBVIOUS
      <3>2. QED
        BY <1>3, <3>1 DEF OpenSome
    <2>2. QED
      BY <2>1
  <1>4. Frame(s, u)
    BY <1>3, FrameTwice DEF OpenSome
  <1>5. OpenSome(s, F, q, k + 1, u)
    BY <1>2, <1>3, <1>4, <1>4a, <1>4b DEF OpenSome
  <1>6. QED
    BY <1>1, <1>5 DEF OpenStep

(* Opening every file keeps the invariant.                                 *)
LEMMA OpenAllKeeps ==
  ASSUME NEW s, Good(s), NEW F, Alive(s, F), NEW t, t = OpenedAll(s)
  PROVE  OpenSome(s, F, Listing(s), Len(Listing(s)), t)
  <1>1. s \in State /\ Distinct(s.dir)
    BY DEF Good, Named
  <1>2. PICK q \in Seq(FileName) : q = Listing(s) /\ Among(q) = Files(s)
    BY <1>1, ListingFacts
  <1>3. PICK n \in Nat : n = Len(q) /\ DOMAIN q = 1 .. n
    BY <1>2
  <1>4. t = OpenFold!Folded(0, s, q)
    BY <1>2 DEF OpenedAll, FoldLeft, MapThenFoldSet, OpenFold!Folded, OpenFold!Max, Max, OpenStep
  <1>5. PICK h : OpenFold!Traces(0, s, q, n, h)
    BY <1>3, OpenFold!FoldSteps
  <1>5a. /\ h[0] = s
         /\ \A k \in 1 .. n : h[k] = OpenStep(0, h[k - 1], q[k])
         /\ OpenFold!Folded(0, s, q) = h[n]
    BY <1>5 DEF OpenFold!Traces
  <1> DEFINE A == {k \in 0 .. n : OpenSome(s, F, q, k, h[k])}
  <1>6. 0 \in A
    BY <1>5a DEF OpenSome, Frame, PositionIn
  <1>7. ASSUME NEW k \in 0 .. n - 1, k \in A PROVE k + 1 \in A
    <2>1. k + 1 \in 1 .. n /\ k + 1 \in 0 .. n /\ (k + 1) - 1 = k
      OBVIOUS
    <2>2. q[k + 1] \in Files(s)
      BY <1>2, <1>3, <2>1 DEF Among
    <2>3. OpenSome(s, F, q, k + 1, OpenStep(0, h[k], q[k + 1]))
      BY <1>7, <2>2, OpenSomeMore
    <2>4. h[k + 1] = OpenStep(0, h[k], q[k + 1])
      BY <1>5a, <2>1
    <2>5. QED
      BY <2>1, <2>3, <2>4
  <1>8. OpenSome(s, F, q, n, h[n])
    <2> HIDE DEF A
    <2>1. \A k \in 0 .. n : k \in A
      BY <1>6, <1>7, NameFold!CountingUp
    <2>2. QED
      BY <2>1 DEF A
  <1>9. QED
    BY <1>2, <1>3, <1>4, <1>5a, <1>8

-----------------------------------------------------------------------------
(* What a new file holds, and the sectors it takes.                        *)

(* A file whose inode is as it was, and whose blocks are in use, holds     *)
(* what it held.                                                           *)
LEMMA UnmovedContents ==
  ASSUME NEW s, Good(s), Clean(s), NEW t, Good(t), Unmoved(s, t),
         NEW g \in Files(s), g \in Files(t), Mem(t, g) = Mem(s, g)
  PROVE  Contents(t, g) = Contents(s, g)
  <1>1. PICK x \in InodeRec : x = Mem(s, g)
    BY MemFacts
  <1>2. g \in Kept(s)
    BY DEF Clean, Kept
  <1>3. BlocksOf(x) \subseteq s.used
    BY <1>1, <1>2 DEF Good, Apart, Own
  <1>4. x.len \in Nat /\ SectorsFor(x.len) \in Nat /\ SectorsFor(x.len) <= Len(x.blocks) /\ Len(x.blocks) \in Nat
    BY InodeFields, SectorsForType
  <1>5. ASSUME NEW k \in 1 .. SectorsFor(x.len) PROVE t.disk[x.blocks[k]] = s.disk[x.blocks[k]]
    <2>1. k \in 1 .. Len(x.blocks)
      BY <1>4
    <2>2. x.blocks[k] \in s.used
      BY <1>3, <2>1 DEF BlocksOf
    <2>3. QED
      BY <2>2 DEF Unmoved
  <1>6. Agrees(s.disk, x, t.disk, x)
    BY <1>5 DEF Agrees
  <1>7. Copies(s.disk, x, x.len, t.disk, x)
    BY <1>6, AgreesCopies
  <1>8. QED
    BY <1>1, <1>7, SameContents

(* A file made of blank blocks holds zeros.                                *)
LEMMA BlankBytes ==
  ASSUME NEW d, NEW x \in InodeRec, \A k \in 1 .. Len(x.blocks) : d[x.blocks[k]] = Blank,
         NEW q \in Nat, q < x.len
  PROVE  ByteAt(d, x, q) = Nul
  <1>1. x.len \in Nat /\ SectorsFor(x.len) \in Nat /\ SectorsFor(x.len) <= Len(x.blocks) /\ Len(x.blocks) \in Nat
    BY InodeFields, SectorsForType
  <1>2. PICK k \in 1 .. SectorsFor(x.len), h \in 1 .. SectorSize :
          k = (q \div SectorSize) + 1 /\ h = (q % SectorSize) + 1
    BY <1>1, SectorWithin
  <1>3. d[x.blocks[k]] = Blank
    <2>1. k \in 1 .. Len(x.blocks)
      BY <1>1
    <2>2. QED
      BY <2>1
  <1>4. ByteAt(d, x, q) = Raw(d[x.blocks[k]])[h]
    BY <1>2, Zenon DEF ByteAt
  <1>5. QED
    BY <1>3, <1>4, BlankFacts

\* f is a new file of n zeros, and every other file holds what it held.
Grants(s, f, n, t) ==
  /\ \A g \in Files(s) : Contents(t, g) = Contents(s, g)
  /\ \A g \in Files(t) \ Files(s) : Contents(t, g) = Store!Zeros(n)

(* filesys_create.                                                         *)
LEMMA CreatedContents ==
  ASSUME NEW s, Good(s), Clean(s), NEW f \in FileName, NEW n \in 0 .. MaxLength,
         NEW t, t = Created(s, f, n)
  PROVE  Grants(s, f, n, t)
  <1>1. Creates(s, f, n, t)
    BY CreatedKeeps
  <1>2. Good(t) /\ Files(s) \subseteq Files(t) /\ \A g \in Files(s) : Mem(t, g) = Mem(s, g)
    BY <1>1 DEF Creates
  <1>3. CASE Free(s) = {}
    <2>1. t = s
      BY <1>3 DEF Created
    <2>2. QED
      BY <2>1 DEF Grants
  <1>4. CASE Free(s) # {}
    <2>1. s \in State /\ System \subseteq s.used /\ Distinct(s.dir)
      BY DEF Good, Named
    <2>2. /\ Unmoved(s, t)
          /\ \/ t.dir = s.dir
             \/ \E i \in Sector \ s.used : \E new \in SUBSET (Sector \ (s.used \cup {i})) :
                  \E blocks : NewFile(s, f, n, i, new, blocks, t)
      BY <1>4, <2>1, CreatedIs
    <2>3. ASSUME NEW g \in Files(s) PROVE Contents(t, g) = Contents(s, g)
      BY <1>2, <2>2, UnmovedContents
    <2>4. ASSUME NEW g \in Files(t) \ Files(s) PROVE Contents(t, g) = Store!Zeros(n)
      <3>1. t.dir # s.dir
        BY <2>4, SameDir
      <3>2. PICK i \in Sector \ s.used : \E new \in SUBSET (Sector \ (s.used \cup {i})) :
                  \E blocks : NewFile(s, f, n, i, new, blocks, t)
        BY <2>2, <3>1
      <3>2a. PICK new \in SUBSET (Sector \ (s.used \cup {i})) : \E blocks : NewFile(s, f, n, i, new, blocks, t)
        BY <3>2
      <3>3. PICK blocks : NewFile(s, f, n, i, new, blocks, t)
        BY <3>2a
      <3>4. i \in Sector \ System
        BY <2>1, <3>2
      <3>5. f \in FileName \ Files(s) /\ t.dir = Added(s.dir, f, i)
        BY <3>3 DEF NewFile
      <3>6. Files(t) = Files(s) \cup {f}
        BY <2>1, <3>4, <3>5, AddedIs
      <3>7. g = f
        BY <3>6
      <3>8. InodeOf(t, f) = i
        BY <2>1, <3>4, <3>5, <3>7, AddedInodes
      <3>9. t.inodes[i] = NotOpen
        BY <2>2, <3>2 DEF Clean, Unmoved
      <3>10. Mem(t, f) = Inode(n, blocks)
        BY <3>3, <3>8, <3>9 DEF Mem, InMemory, NewFile
      <3>11. PICK x \in InodeRec : x = Mem(t, f)
        BY <1>2, <3>7, MemFacts
      <3>12. x.len = n /\ x.blocks = blocks
        BY <3>10, <3>11 DEF Inode
      <3>13. ASSUME NEW k \in 1 .. Len(x.blocks) PROVE t.disk[x.blocks[k]] = Blank
        <4>1. Extends(<<>>, blocks, new) /\ \A b \in new : t.disk[b] = Blank
          BY <3>3 DEF NewFile
        <4>2. blocks[k] \in new
          BY <3>12, <4>1 DEF Extends
        <4>3. QED
          BY <3>12, <4>1, <4>2
      <3>14. \A q \in Nat : q < n => ByteAt(t.disk, x, q) = Nul
        BY <3>12, <3>13, BlankBytes
      <3>15. PICK c \in Seq(Byte) : c = Contents(t, f)
        BY <1>2, <3>7, ContentsType
      <3>16. Len(c) = n /\ \A k \in 1 .. n : c[k] = Nul
        <4>1. Len(c) = n /\ \A k \in 1 .. n : c[k] = ByteAt(t.disk, x, k - 1)
          BY <1>2, <3>7, <3>11, <3>12, <3>15, ContentsAre
        <4>2. QED
          BY <3>14, <4>1
      <3>17. c = Store!Zeros(n)
        BY <3>16 DEF Store!Zeros
      <3>18. QED
        BY <3>7, <3>15, <3>17
    <2>5. QED
      BY <2>3, <2>4 DEF Grants
  <1>5. QED
    BY <1>3, <1>4

(* A lower sector of a set has fewer below it.                             *)
LEMMA RankGrows ==
  ASSUME NEW S \in SUBSET Sector, NEW t \in S, NEW u \in S, t < u
  PROVE  Rank(S, t) < Rank(S, u)
  <1>1. \A y \in S : y \in Nat
    BY FilesAssumption DEF Sector
  <1>2. PICK A : A = {v \in S : v < t}
    OBVIOUS
  <1>3. PICK B : B = {v \in S : v < u}
    OBVIOUS
  <1>4. A \in SUBSET B /\ t \in B /\ t \notin A
    <2>1. \A v \in S : v < t => v < u
      BY <1>1
    <2>2. ~(t < t)
      BY <1>1
    <2>3. QED
      BY <1>2, <1>3, <2>1, <2>2
  <1>5. IsFiniteSet(B) /\ Cardinality(B) \in Nat /\ Cardinality(A) \in Nat
    BY <1>2, <1>3, SectorsFinite
  <1>6. Cardinality(A) <= Cardinality(B) /\ Cardinality(A) # Cardinality(B)
    BY <1>4, <1>5, FS_Subset
  <1>7. Cardinality(A) < Cardinality(B)
    BY <1>5, <1>6
  <1>8. QED
    BY <1>2, <1>3, <1>7 DEF Rank

(* The lowest k sectors of a set are k, if there are as many.              *)
LEMMA LowestSize ==
  ASSUME NEW S \in SUBSET Sector, NEW k \in 0 .. Cardinality(S)
  PROVE  Cardinality(LowestOf(S, k)) = k
  <1>1. PICK c \in Nat : c = Cardinality(S)
    BY SectorsFinite
  <1>2. \A y \in S : y \in Nat
    BY FilesAssumption DEF Sector
  <1>3. \A t : Rank(S, t) \in Nat
    BY SectorsFinite DEF Rank
  <1>4. LowestOf(S, k) = {t \in S : Rank(S, t) < k}
    BY DEF LowestOf, Rank
  <1>5. CASE k < c
    <2>1. k \in 0 .. Cardinality(S) - 1
      BY <1>1, <1>5
    <2>2. PICK m \in S : Rank(S, m) = k
      BY <2>1, RankExists
    <2>3. ASSUME NEW t \in S PROVE Rank(S, t) < k <=> t < m
      <3>1. CASE t < m
        BY <2>2, <3>1, RankGrows
      <3>2. CASE t = m
        <4>1. ~(k < k) /\ ~(m < m)
          BY <1>1, <1>2
        <4>2. QED
          BY <2>2, <3>2, <4>1
      <3>3. CASE m < t
        <4>1. k < Rank(S, t)
          BY <2>2, <3>3, RankGrows
        <4>2. ~(Rank(S, t) < k)
          BY <1>1, <1>3, <4>1
        <4>3. ~(t < m)
          BY <1>2, <3>3
        <4>4. QED
          BY <4>2, <4>3
      <3>4. QED
        BY <1>2, <3>1, <3>2, <3>3
    <2>4. LowestOf(S, k) = {t \in S : t < m}
      BY <1>4, <2>3
    <2>5. QED
      BY <2>2, <2>4 DEF Rank
  <1>6. CASE ~(k < c)
    <2>1. k = c
      BY <1>1, <1>6
    <2>2. ASSUME NEW t \in S PROVE Rank(S, t) < k
      <3>1. PICK A : A = {u \in S : u < t}
        OBVIOUS
      <3>2. A \in SUBSET S /\ t \notin A
        <4>1. ~(t < t)
          BY <1>2
        <4>2. QED
          BY <3>1, <4>1
      <3>3. IsFiniteSet(S) /\ Cardinality(A) \in Nat
        BY <3>2, SectorsFinite
      <3>4. Cardinality(A) <= Cardinality(S) /\ Cardinality(A) # Cardinality(S)
        BY <3>2, <3>3, FS_Subset
      <3>5. Cardinality(A) < c
        BY <1>1, <3>3, <3>4
      <3>6. QED
        BY <2>1, <3>1, <3>5 DEF Rank
    <2>3. LowestOf(S, k) = S
      BY <1>4, <2>2
    <2>4. QED
      BY <1>1, <2>1, <2>3
  <1>7. QED
    BY <1>5, <1>6

(* A sequence of m different sectors names m of them.                      *)
LEMMA DifferentSectors ==
  ASSUME NEW q \in Seq(Sector), Injective(q), NEW m \in 0 .. Len(q)
  PROVE  Cardinality({q[k] : k \in 1 .. m}) = m
  <1>1. PICK S : S = {q[k] : k \in 1 .. m}
    OBVIOUS
  <1>2. PICK l \in Nat : l = Len(q) /\ DOMAIN q = 1 .. l
    OBVIOUS
  <1>3. m \in Nat /\ \A k \in 1 .. m : k \in 1 .. l
    BY <1>2
  <1>4. PICK g : g = [k \in 1 .. m |-> q[k]]
    OBVIOUS
  <1>5. g \in [1 .. m -> S]
    BY <1>1, <1>4
  <1>6. \A j, k \in 1 .. m : g[j] = g[k] => j = k
    BY <1>2, <1>3, <1>4 DEF Injective
  <1>7. \A y \in S : \E k \in 1 .. m : g[k] = y
    BY <1>1, <1>4
  <1>8. g \in Bijection(1 .. m, S)
    BY <1>5, <1>6, <1>7 DEF Bijection, Injection, Surjection, IsInjective
  <1>9. ExistsBijection(1 .. m, S)
    BY <1>8 DEF ExistsBijection
  <1>10. QED
    BY <1>1, <1>3, <1>9, FS_CountingElements

(* rm releases the inode's sector and as many as its length reaches.       *)
LEMMA RegionSize ==
  ASSUME NEW s, Good(s), Clean(s), NEW f \in Files(s)
  PROVE  /\ Region(s, f) \in SUBSET Sector
         /\ Cardinality(Region(s, f)) = 1 + SectorsFor(SizeOf(s, f))
  <1>1. PICK x \in InodeRec : x = Mem(s, f)
    BY MemFacts
  <1>2. SizeOf(s, f) = x.len
    BY <1>1 DEF SizeOf, Mem
  <1>3. PICK m \in Nat : m = SectorsFor(x.len) /\ m <= Len(x.blocks)
    BY InodeFields, SectorsForType
  <1>4. PICK q \in Seq(Sector) : q = x.blocks
    BY InodeFields
  <1>5. PICK i : i = InodeOf(s, f)
    OBVIOUS
  <1>6. i \in Sector
    BY <1>5, MemFacts
  <1>7. f \in Kept(s)
    BY DEF Clean, Kept
  <1>8. Injective(q) /\ i \notin BlocksOf(x)
    BY <1>1, <1>4, <1>5, <1>7 DEF Good, Apart, Own
  <1>9. PICK B : B = {q[k] : k \in 1 .. m}
    OBVIOUS
  <1>10. m \in 0 .. Len(q) /\ \A k \in 1 .. m : k \in 1 .. Len(q)
    BY <1>3, <1>4
  <1>11. B \in SUBSET Sector /\ i \notin B
    BY <1>4, <1>8, <1>9, <1>10 DEF BlocksOf
  <1>12. Cardinality(B) = m
    BY <1>8, <1>9, <1>10, DifferentSectors
  <1>13. Region(s, f) = B \cup {i}
    BY <1>1, <1>3, <1>4, <1>5, <1>9, RegionIs
  <1>14. Cardinality(B \cup {i}) = m + 1
    BY <1>11, <1>12, SectorsFinite, FS_AddElement
  <1>15. QED
    BY <1>2, <1>3, <1>6, <1>11, <1>13, <1>14

\* The sectors of the files that q names after the k-th.
Spaces(s, q, k) == UNION {Region(s, q[j]) : j \in k + 1 .. Len(q)}

(* The sectors of different files are different.                           *)
LEMMA RegionsApart ==
  ASSUME NEW s, Good(s), Clean(s), NEW f \in Files(s), NEW g \in Files(s), f # g
  PROVE  Region(s, f) \cap Region(s, g) = {}
  <1>1. PICK x \in InodeRec : x = Mem(s, f)
    BY MemFacts
  <1>2. PICK y \in InodeRec : y = Mem(s, g)
    BY MemFacts
  <1>3. SectorsFor(x.len) \in Nat /\ SectorsFor(x.len) <= Len(x.blocks) /\ Len(x.blocks) \in Nat
    BY InodeFields, SectorsForType
  <1>4. SectorsFor(y.len) \in Nat /\ SectorsFor(y.len) <= Len(y.blocks) /\ Len(y.blocks) \in Nat
    BY InodeFields, SectorsForType
  <1>5. /\ \A k \in 1 .. SectorsFor(x.len) : k \in 1 .. Len(x.blocks)
        /\ \A k \in 1 .. SectorsFor(y.len) : k \in 1 .. Len(y.blocks)
    BY <1>3, <1>4
  <1>6. Region(s, f) \subseteq {InodeOf(s, f)} \cup Own(s, f)
    BY <1>1, <1>5, RegionIs DEF Own, BlocksOf
  <1>7. Region(s, g) \subseteq {InodeOf(s, g)} \cup Own(s, g)
    BY <1>2, <1>5, RegionIs DEF Own, BlocksOf
  <1>8. f \in Kept(s) /\ g \in Kept(s)
    BY DEF Clean, Kept
  <1>9. /\ InodeOf(s, f) \notin Own(s, g) /\ InodeOf(s, g) \notin Own(s, f)
        /\ Own(s, f) \cap Own(s, g) = {} /\ InodeOf(s, f) # InodeOf(s, g)
    BY <1>8 DEF Good, Apart, Named
  <1>10. QED
    BY <1>6, <1>7, <1>9

(* What the files from the next one on take: what that one takes, and the  *)
(* rest.                                                                   *)
LEMMA SpacesNext ==
  ASSUME NEW s, Good(s), Clean(s), NEW q \in Seq(FileName), Injective(q), Among(q) = Files(s),
         NEW k \in 0 .. Len(q) - 1
  PROVE  /\ Spaces(s, q, k) \in SUBSET Sector /\ Spaces(s, q, k + 1) \in SUBSET Sector
         /\ Cardinality(Spaces(s, q, k))
              = (1 + SectorsFor(SizeOf(s, q[k + 1]))) + Cardinality(Spaces(s, q, k + 1))
  <1>1. PICK n \in Nat : n = Len(q) /\ DOMAIN q = 1 .. n
    OBVIOUS
  <1>2. \A j \in 1 .. n : q[j] \in Files(s)
    BY <1>1 DEF Among
  <1>3. k + 1 \in 1 .. n /\ k + 1 \in Nat
    BY <1>1
  <1>4. /\ \A j \in (k + 1) + 1 .. n : j \in 1 .. n /\ j # k + 1 /\ j \in k + 1 .. n
        /\ \A j \in k + 1 .. n : j \in 1 .. n /\ (j = k + 1 \/ j \in (k + 1) + 1 .. n)
        /\ k + 1 \in k + 1 .. n
    BY <1>1
  <1>5. PICK f : f = q[k + 1]
    OBVIOUS
  <1>6. PICK R : R = Region(s, f)
    OBVIOUS
  <1>7. PICK T : T = Spaces(s, q, k + 1)
    OBVIOUS
  <1>8. f \in Files(s)
    BY <1>2, <1>3, <1>5
  <1>9. R \in SUBSET Sector /\ Cardinality(R) = 1 + SectorsFor(SizeOf(s, f))
    BY <1>6, <1>8, RegionSize
  <1>10. T \in SUBSET Sector
    <2>1. \A j \in (k + 1) + 1 .. n : Region(s, q[j]) \in SUBSET Sector
      BY <1>2, <1>4, RegionSize
    <2>2. QED
      BY <1>1, <1>7, <2>1 DEF Spaces
  <1>11. Spaces(s, q, k) = R \cup T
    BY <1>1, <1>4, <1>5, <1>6, <1>7 DEF Spaces
  <1>12. R \cap T = {}
    <2>1. ASSUME NEW j \in (k + 1) + 1 .. n PROVE R \cap Region(s, q[j]) = {}
      <3>1. q[j] \in Files(s) /\ q[j] # f
        BY <1>1, <1>2, <1>3, <1>4, <1>5 DEF Injective
      <3>2. QED
        BY <1>6, <1>8, <3>1, RegionsApart
    <2>2. QED
      BY <1>1, <1>7, <2>1 DEF Spaces
  <1>13. Cardinality(R \cup T) = Cardinality(R) + Cardinality(T)
    <2>1. IsFiniteSet(R) /\ IsFiniteSet(T) /\ Cardinality(R) \in Nat /\ Cardinality(T) \in Nat
      BY <1>9, <1>10, SectorsFinite
    <2>2. Cardinality(R \cap T) = 0
      BY <1>12, FS_EmptySet
    <2>3. Cardinality(R \cup T) = Cardinality(R) + Cardinality(T) - Cardinality(R \cap T)
      BY <2>1, FS_Union
    <2>4. QED
      BY <2>1, <2>2, <2>3
  <1>14. QED
    BY <1>5, <1>7, <1>9, <1>10, <1>11, <1>13

\* What inode_reserve does when there is room: it takes as many sectors as n bytes need.
Supplies(s, n, got) ==
  /\ got.enough /\ got.state \in State /\ got.state.dir = s.dir
  /\ got.state.used = s.used \cup LowestOf(Free(s), SectorsFor(n))
  /\ got.blocks = Ascending(LowestOf(Free(s), SectorsFor(n)))
  /\ got.state.inodes = s.inodes

(* A file that fits in the free sectors gets the lowest of them.           *)
LEMMA ReservesAll ==
  ASSUME NEW s \in State, NEW n \in Nat, SectorsFor(n) <= Cardinality(Free(s)),
         NEW got, got = Reserve(s, <<>>, n)
  PROVE  Supplies(s, n, got) /\ Cardinality(LowestOf(Free(s), SectorsFor(n))) = SectorsFor(n)
  <1>1. PICK w \in Nat : w = SectorsFor(n)
    BY SectorsForType
  <1>2. PICK new : new = LowestOf(Free(s), w)
    OBVIOUS
  <1>3. Free(s) \in SUBSET Sector /\ new \in SUBSET Sector
    BY <1>2, LowestAmong DEF Free
  <1>4. Cardinality(new) = w
    <2>1. Cardinality(Free(s)) \in Nat
      BY <1>3, SectorsFinite
    <2>2. w \in 0 .. Cardinality(Free(s))
      BY <1>1, <2>1
    <2>3. QED
      BY <1>2, <1>3, <2>2, LowestSize
  <1>5. PICK st : st = [s EXCEPT !.used = s.used \cup new, !.disk = Cleared(s.disk, new)]
    OBVIOUS
  <1>6. SectorsFor(n) - Len(<<>>) = w
    BY <1>1
  <1>7. got = [state |-> st, blocks |-> <<>> \o Ascending(new), enough |-> w <= Cardinality(new)]
    BY <1>2, <1>5, <1>6 DEF Reserve
  <1>8. got.state = st /\ got.enough /\ got.blocks = Ascending(new)
    <2>1. PICK q : q = <<>> \o Ascending(new)
      OBVIOUS
    <2>7. q = Ascending(new)
      <3>1. PICK a \in Seq(new) : a = Ascending(new)
        BY <1>3, AscendingFacts
      <3>2. <<>> \o a = a
        OBVIOUS
      <3>3. QED
        BY <2>1, <3>1, <3>2
    <2>2. PICK b : b = (w <= Cardinality(new))
      OBVIOUS
    <2>3. got = [state |-> st, blocks |-> q, enough |-> b]
      BY <1>7, <2>1, <2>2, Zenon
    <2>4. got.state = st /\ got.enough = b /\ got.blocks = q
      BY <2>3
    <2>5. w <= Cardinality(new)
      BY <1>4
    <2>6. QED
      BY <2>2, <2>4, <2>5, <2>7, Zenon
  <1>9. Reserved(s, new, st)
    BY <1>3, <1>5, ReservedState
  <1>10. QED
    BY <1>1, <1>2, <1>4, <1>8, <1>9 DEF Supplies, Reserved

\* The inode and the blocks of the new file f of t lie in the lowest free sectors of s.
Placed(s, f, n, t) ==
  LET i == Min(Free(s))
      new == LowestOf(Free(s) \ {i}, SectorsFor(n))
  IN t.used = s.used \cup {i} \cup new /\ Mem(t, f).blocks = Ascending(new)

(* filesys_create makes the file when there is room for it, and takes a    *)
(* sector for the inode and what n bytes need.                             *)
LEMMA CreatedRoom ==
  ASSUME NEW s, Good(s), Clean(s), NEW f \in FileName \ Files(s), NEW n \in 0 .. MaxLength,
         1 + SectorsFor(n) <= Cardinality(Free(s)), NEW t, t = Created(s, f, n)
  PROVE  /\ f \in Files(t)
         /\ Cardinality(Free(t)) = Cardinality(Free(s)) - (1 + SectorsFor(n))
         /\ Placed(s, f, n, t)
  <1>1. PICK w \in Nat : w = SectorsFor(n) /\ n \in Nat
    BY FilesAssumption, SectorsForType
  <1>2. s \in State /\ System \subseteq s.used /\ Distinct(s.dir)
    BY DEF Good, Named
  <1>3. PICK fr \in SUBSET Sector : fr = Free(s)
    BY DEF Free
  <1>4. PICK c \in Nat : c = Cardinality(fr) /\ 1 + w <= c
    BY <1>1, <1>3, SectorsFinite
  <1>5. fr # {}
    BY <1>4, FS_EmptySet
  <1>6. PICK i : i = Min(fr)
    OBVIOUS
  <1>7. i \in fr /\ i \in Sector \ s.used /\ i \notin System
    <2>1. fr \in SUBSET Nat
      BY FilesAssumption DEF Sector
    <2>2. i \in fr
      BY <1>5, <1>6, <2>1, MinFacts
    <2>3. QED
      BY <1>2, <1>3, <2>2 DEF Free
  <1>8. PICK u \in SUBSET Sector : u = s.used \cup {i}
    BY <1>2, <1>7, StateFields
  <1>9. PICK b : b = PutUsed(s, u)
    OBVIOUS
  <1>10. b \in State /\ b.used = u /\ b.dir = s.dir /\ b.inodes = s.inodes
    BY <1>2, <1>9, WithUsed
  <1>11. Free(b) = fr \ {i} /\ Cardinality(Free(b)) = c - 1
    <2>1. Free(b) = fr \ {i}
      BY <1>3, <1>8, <1>10 DEF Free
    <2>2. QED
      BY <1>4, <1>7, <2>1, SectorsFinite, FS_RemoveElement
  <1>12. PICK got : got = Reserve(b, <<>>, n)
    OBVIOUS
  <1>13. PICK new : new = LowestOf(Free(b), SectorsFor(n))
    OBVIOUS
  <1>14. Supplies(b, n, got) /\ Cardinality(new) = w
    <2>1. SectorsFor(n) <= Cardinality(Free(b))
      BY <1>1, <1>4, <1>11
    <2>2. QED
      BY <1>1, <1>10, <1>12, <1>13, <2>1, ReservesAll
  <1>15. new \in SUBSET (fr \ {i})
    BY <1>11, <1>13, LowestAmong
  <1>16. PICK g : g = got.state
    OBVIOUS
  <1>17. got.enough /\ g \in State /\ g.dir = s.dir /\ g.used = u \cup new
    BY <1>10, <1>13, <1>14, <1>16 DEF Supplies
  <1>18. PICK m : m = [g EXCEPT !.disk[i] = Inode(n, got.blocks)]
    OBVIOUS
  <1>19. m.used = g.used /\ m.dir = g.dir
    <2>1. PICK d : d = [g.disk EXCEPT ![i] = Inode(n, got.blocks)]
      OBVIOUS
    <2>2. m = PutDisk(g, d)
      BY <1>18, <2>1 DEF PutDisk
    <2>3. QED
      BY <1>17, <2>2 DEF PutDisk, State
  <1>20. t = [m EXCEPT !.dir = Added(@, f, i)]
    <2>1. b = [s EXCEPT !.used = @ \cup {i}]
      BY <1>8, <1>9 DEF PutUsed
    <2>2. QED
      BY <1>3, <1>5, <1>6, <1>12, <1>16, <1>17, <1>18, <2>1, Zenon DEF Created
  <1>21. /\ t.used = g.used /\ t.dir = Added(s.dir, f, i)
         /\ t.inodes = s.inodes /\ t.disk[i] = Inode(n, got.blocks)
    <2>1. PICK e : e = Added(m.dir, f, i)
      OBVIOUS
    <2>2. t = [m EXCEPT !.dir = e]
      BY <1>20, <2>1
    <2>3. PICK d : d = [g.disk EXCEPT ![i] = Inode(n, got.blocks)]
      OBVIOUS
    <2>4. m = PutDisk(g, d)
      BY <1>18, <2>3 DEF PutDisk
    <2>5. /\ t.used = g.used /\ t.dir = e /\ t.inodes = g.inodes /\ t.disk = d
      BY <1>17, <2>2, <2>4 DEF PutDisk, State
    <2>7. g.inodes = s.inodes
      BY <1>10, <1>14, <1>16 DEF Supplies
    <2>8. d[i] = Inode(n, got.blocks)
      <3>1. g.disk \in [Sector -> Record] /\ i \in Sector
        BY <1>7, <1>17, StateFields
      <3>2. QED
        BY <2>3, <3>1
    <2>6. QED
      BY <1>17, <1>19, <2>1, <2>5, <2>7, <2>8
  <1>22. f \in Files(t)
    <2>1. t \in State
      BY CreatedKeeps DEF Creates, Good
    <2>2. i \in Sector \ System
      BY <1>7
    <2>3. QED
      BY <1>2, <1>21, <2>1, <2>2, AddedIs
  <1>23. Free(t) = (fr \ {i}) \ new
    BY <1>3, <1>8, <1>17, <1>21 DEF Free
  <1>24. Cardinality((fr \ {i}) \ new) = (c - 1) - w
    <2>1. PICK S \in SUBSET Sector : S = fr \ {i}
      OBVIOUS
    <2>2. IsFiniteSet(S) /\ Cardinality(S) = c - 1
      BY <1>11, <2>1, SectorsFinite
    <2>3. S \cap new = new
      BY <1>15, <2>1
    <2>4. Cardinality(S \ new) = Cardinality(S) - Cardinality(S \cap new)
      BY <2>2, FS_Difference
    <2>5. QED
      BY <1>14, <2>1, <2>2, <2>3, <2>4
  <1>25. Placed(s, f, n, t)
    <2>1. InodeOf(t, f) = i
      BY <1>2, <1>7, <1>21, <1>22, AddedInodes
    <2>2. t.inodes[i] = NotOpen
      BY <1>7, <1>21 DEF Clean
    <2>3. Mem(t, f) = Inode(n, got.blocks)
      BY <1>21, <2>1, <2>2 DEF Mem, InMemory
    <2>4. Mem(t, f).blocks = got.blocks
      BY <2>3 DEF Inode
    <2>5. got.blocks = Ascending(new)
      BY <1>13, <1>14 DEF Supplies
    <2>6. new = LowestOf(Free(s) \ {i}, SectorsFor(n))
      BY <1>3, <1>11, <1>13
    <2>7. t.used = s.used \cup {i} \cup new
      BY <1>8, <1>17, <1>21
    <2>8. QED
      BY <1>3, <1>6, <2>4, <2>5, <2>6, <2>7, Zenon DEF Placed
  <1>26. QED
    BY <1>1, <1>3, <1>4, <1>22, <1>23, <1>24, <1>25

(* In an interval the rank of a sector is its distance from the lowest.    *)
LEMMA IntervalRank ==
  ASSUME NEW a \in Nat, NEW b \in Nat, NEW S \in SUBSET Sector, S = a .. b, NEW t \in S
  PROVE  Rank(S, t) = t - a
  <1>1. t \in Int /\ a <= t /\ t <= b
    OBVIOUS
  <1>2. {u \in S : u < t} = a .. t - 1
    BY <1>1
  <1>3. Cardinality(a .. t - 1) = IF a > t - 1 THEN 0 ELSE (t - 1) - a + 1
    BY <1>1, FS_Interval
  <1>4. Rank(S, t) = Cardinality(a .. t - 1)
    BY <1>2, Zenon DEF Rank
  <1>5. Cardinality(a .. t - 1) = t - a
    BY <1>1, <1>3
  <1>6. QED
    BY <1>4, <1>5, Zenon

(* The lowest w of an interval are its first w.                            *)
LEMMA LowestInterval ==
  ASSUME NEW a \in Nat, NEW b \in Nat, NEW S \in SUBSET Sector, S = a .. b,
         NEW w \in Nat, w <= Cardinality(S)
  PROVE  LowestOf(S, w) = a .. a + w - 1
  <1>1. LowestOf(S, w) = {t \in S : Rank(S, t) < w}
    BY DEF LowestOf, Rank
  <1>2. \A t \in S : Rank(S, t) = t - a
    BY IntervalRank
  <1>3. LowestOf(S, w) = {t \in S : t - a < w}
    BY <1>1, <1>2
  <1>4. Cardinality(S) = IF a > b THEN 0 ELSE b - a + 1
    BY FS_Interval
  <1>5. w = 0 \/ a + w - 1 <= b
    BY <1>4
  <1>6. \A t \in S : t - a < w => t \in a .. a + w - 1
    OBVIOUS
  <1>7. \A t \in a .. a + w - 1 : t \in S /\ t - a < w
    BY <1>5
  <1>8. QED
    BY <1>3, <1>6, <1>7

(* An interval, in ascending order.                                        *)
LEMMA AscendingInterval ==
  ASSUME NEW a \in Nat, NEW b \in Nat, NEW S \in SUBSET Sector, S = a .. b,
         NEW k \in 1 .. Cardinality(S)
  PROVE  Ascending(S)[k] = a + k - 1
  <1>1. PICK c \in Nat : c = Cardinality(S)
    BY SectorsFinite
  <1>2. Ascending(S)[k] = CHOOSE t \in S : Rank(S, t) = k - 1
    BY <1>1 DEF Ascending, Rank
  <1>3. k - 1 \in 0 .. Cardinality(S) - 1
    BY <1>1
  <1>4. PICK t \in S : t = Ascending(S)[k] /\ Rank(S, t) = k - 1
    <2>1. \E t \in S : Rank(S, t) = k - 1
      BY <1>3, RankExists
    <2>2. QED
      BY <1>2, <2>1
  <1>5. t - a = k - 1
    BY <1>4, IntervalRank
  <1>6. QED
    BY <1>1, <1>4, <1>5

\* The blocks that the length of x reaches follow each other.
Run(x) == \A k \in 1 .. SectorsFor(x.len) - 1 : x.blocks[k + 1] = x.blocks[k] + 1

\* The sectors in use are the first of the disk, and no file is torn.
Packed(s) == (\E m \in Nat : s.used = 0 .. m - 1) /\ \A f \in Files(s) : Run(Mem(s, f))

(* On a packed disk the next file goes behind the others.                  *)
LEMMA PlacedPacked ==
  ASSUME NEW s, Good(s), Packed(s), NEW f, NEW n \in Nat, 1 + SectorsFor(n) <= Cardinality(Free(s)),
         NEW t, Placed(s, f, n, t), Mem(t, f).len = n
  PROVE  (\E m \in Nat : t.used = 0 .. m - 1) /\ Run(Mem(t, f))
  <1>1. PICK w \in Nat : w = SectorsFor(n)
    BY SectorsForType
  <1>2. PICK L \in Nat : L = LastSector /\ Sector = 0 .. L
    BY FilesAssumption DEF Sector
  <1>3. PICK m \in Nat : s.used = 0 .. m - 1
    BY DEF Packed
  <1>4. PICK fr \in SUBSET Sector : fr = Free(s)
    BY DEF Free
  <1>5. fr = m .. L
    BY <1>2, <1>3, <1>4 DEF Free
  <1>6. Cardinality(fr) = IF m > L THEN 0 ELSE L - m + 1
    BY <1>5, FS_Interval
  <1>7. m + w <= L
    BY <1>1, <1>4, <1>6
  <1>8. Min(fr) = m
    <2>1. fr \in SUBSET Nat /\ fr # {} /\ m \in fr
      <3>1. m \in m .. L /\ \A y \in m .. L : y \in Nat
        BY <1>7
      <3>2. QED
        BY <1>5, <3>1
    <2>2. Min(fr) \in fr /\ \A y \in fr : Min(fr) <= y
      BY <2>1, MinFacts
    <2>3. QED
      BY <1>5, <2>1, <2>2
  <1>9. PICK S \in SUBSET Sector : S = fr \ {m}
    OBVIOUS
  <1>10. S = m + 1 .. L
    BY <1>5, <1>9
  <1>11. w <= Cardinality(S)
    <2>1. Cardinality(S) = IF m + 1 > L THEN 0 ELSE L - (m + 1) + 1
      BY <1>10, FS_Interval
    <2>2. QED
      BY <1>7, <2>1
  <1>12. PICK new : new = LowestOf(S, w)
    OBVIOUS
  <1>13. new = m + 1 .. m + w
    <2>1. new = (m + 1) .. (m + 1) + w - 1
      BY <1>10, <1>11, <1>12, LowestInterval
    <2>2. (m + 1) + w - 1 = m + w
      OBVIOUS
    <2>3. QED
      BY <2>1, <2>2
  <1>14. t.used = s.used \cup {m} \cup new /\ Mem(t, f).blocks = Ascending(new)
    BY <1>1, <1>4, <1>8, <1>9, <1>12, Zenon DEF Placed
  <1>15. t.used = 0 .. (m + w + 1) - 1
    BY <1>3, <1>13, <1>14
  <1>16. new \in SUBSET Sector /\ Cardinality(new) = w
    <2>1. new \in SUBSET Sector
      BY <1>2, <1>7, <1>13
    <2>2. Cardinality(new) = IF m + 1 > m + w THEN 0 ELSE (m + w) - (m + 1) + 1
      BY <1>13, FS_Interval
    <2>3. QED
      BY <2>1, <2>2
  <1>17. \A k \in 1 .. w : Ascending(new)[k] = m + k
    <2>1. ASSUME NEW k \in 1 .. w PROVE Ascending(new)[k] = m + k
      <3>1. Ascending(new)[k] = (m + 1) + k - 1
        <4>1. m + 1 \in Nat /\ m + w \in Nat /\ k \in 1 .. Cardinality(new)
          BY <1>16
        <4>2. QED
          BY <1>13, <1>16, <4>1, AscendingInterval
      <3>2. QED
        BY <3>1
    <2>2. QED
      BY <2>1
  <1>18. Run(Mem(t, f))
    <2>1. ASSUME NEW k \in 1 .. w - 1 PROVE Ascending(new)[k + 1] = Ascending(new)[k] + 1
      <3>1. k \in 1 .. w /\ k + 1 \in 1 .. w
        OBVIOUS
      <3>2. QED
        BY <1>17, <3>1
    <2>2. QED
      BY <1>1, <1>14, <2>1 DEF Run
  <1>19. m + w + 1 \in Nat
    OBVIOUS
  <1>20. QED
    BY <1>15, <1>18, <1>19, Zenon

(* A file whose length and first blocks stay as they are stays whole.      *)
LEMMA RunKeeps ==
  ASSUME NEW x \in InodeRec, Run(x), NEW y, Begins(x, y), y.len = x.len
  PROVE  Run(y)
  <1>1. PICK w \in Nat : w = SectorsFor(x.len) /\ w <= Len(x.blocks)
    BY InodeFields, SectorsForType
  <1>2. PICK l \in Nat : l = Len(x.blocks)
    BY InodeFields
  <1>3. ASSUME NEW k \in 1 .. w - 1 PROVE y.blocks[k + 1] = y.blocks[k] + 1
    <2>1. k \in 1 .. l /\ k + 1 \in 1 .. l
      BY <1>1, <1>2
    <2>2. y.blocks[k] = x.blocks[k] /\ y.blocks[k + 1] = x.blocks[k + 1]
      BY <1>2, <2>1 DEF Begins
    <2>3. QED
      BY <1>1, <2>2 DEF Run
  <1>4. QED
    BY <1>1, <1>3 DEF Run

-----------------------------------------------------------------------------
(* defragment removes every file.                                          *)
GoneStep(e, s, f) == Gone(s, f)
GoneFold == INSTANCE FoldFacts WITH Op <- GoneStep

\* t is s without the first k files of q, and without their sectors.
LeftOver(s, q, k, t) ==
  /\ Good(t) /\ Clean(t) /\ Alive(t, {})
  /\ \A g : g \in Files(t) <=> \E j \in k + 1 .. Len(q) : q[j] = g
  /\ t.disk = s.disk /\ \A g \in Files(t) : InodeOf(t, g) = InodeOf(s, g)
  /\ \A j \in 1 .. k : Region(s, q[j]) \cap t.used = {}
  /\ t.used \subseteq s.used

(* One more file removed.                                                  *)
LEMMA GoneOneMore ==
  ASSUME NEW s, NEW q \in Seq(FileName), Injective(q), NEW k \in 0 .. Len(q) - 1,
         NEW t, LeftOver(s, q, k, t)
  PROVE  LeftOver(s, q, k + 1, GoneStep(0, t, q[k + 1]))
  <1>1. PICK f : f = q[k + 1]
    OBVIOUS
  <1>2. PICK n \in Nat : n = Len(q)
    OBVIOUS
  <1>3. k + 1 \in k + 1 .. n /\ k + 1 \in 1 .. n
    BY <1>2
  <1>4. f \in Files(t)
    BY <1>1, <1>2, <1>3 DEF LeftOver
  <1>5. PICK u : u = Gone(t, f)
    OBVIOUS
  <1>6. /\ Good(u) /\ Clean(u) /\ Files(u) = Files(t) \ {f} /\ (Alive(t, {}) => Alive(u, {}))
        /\ \A g \in Files(u) : InodeOf(u, g) = InodeOf(t, g)
        /\ u.disk = t.disk /\ u.used = t.used \ Region(t, f)
    BY <1>4, <1>5, GoneKeeps DEF LeftOver
  <1>7. \A j \in (k + 1) + 1 .. n : j \in 1 .. n /\ j # k + 1 /\ j \in k + 1 .. n
    BY <1>2
  <1>8. \A j \in k + 1 .. n : j = k + 1 \/ j \in (k + 1) + 1 .. n
    BY <1>2
  <1>9. \A j \in (k + 1) + 1 .. n : q[j] # f
    BY <1>1, <1>2, <1>3, <1>7 DEF Injective
  <1>10. ASSUME NEW g PROVE g \in Files(u) <=> \E j \in (k + 1) + 1 .. n : q[j] = g
    <2>1. g \in Files(t) <=> \E j \in k + 1 .. n : q[j] = g
      BY <1>2 DEF LeftOver
    <2>2. QED
      BY <1>1, <1>6, <1>7, <1>8, <1>9, <2>1
  <1>13. t.disk = s.disk /\ \A g \in Files(t) : InodeOf(t, g) = InodeOf(s, g)
    BY DEF LeftOver
  <1>14. u.disk = s.disk /\ \A g \in Files(u) : InodeOf(u, g) = InodeOf(s, g)
    BY <1>6, <1>13
  <1>15. Region(t, f) = Region(s, f)
    BY <1>4, <1>13 DEF Region
  <1>16. ASSUME NEW j \in 1 .. k + 1 PROVE Region(s, q[j]) \cap u.used = {}
    <2>1. CASE j = k + 1
      BY <1>1, <1>6, <1>15, <2>1
    <2>2. CASE j # k + 1
      <3>1. j \in 1 .. k
        BY <1>2, <2>2
      <3>2. Region(s, q[j]) \cap t.used = {}
        BY <3>1 DEF LeftOver
      <3>3. QED
        BY <1>6, <3>2
    <2>3. QED
      BY <2>1, <2>2
  <1>17. u.used \subseteq s.used
    BY <1>6 DEF LeftOver
  <1>11. LeftOver(s, q, k + 1, u)
    BY <1>2, <1>6, <1>10, <1>14, <1>16, <1>17 DEF LeftOver
  <1>12. QED
    BY <1>1, <1>5, <1>11 DEF GoneStep

(* defragment removes every file of the listing: none is left.             *)
LEMMA GoneAllKeeps ==
  ASSUME NEW s, Good(s), Clean(s), Alive(s, {}), NEW q, q = Listing(s),
         NEW t, t = FoldLeft(Gone, s, q)
  PROVE  /\ Good(t) /\ Clean(t) /\ Alive(t, {}) /\ Files(t) = {}
         /\ Cardinality(Spaces(s, q, 0)) <= Cardinality(Free(t))
         /\ t.used \subseteq s.used /\ \A g \in Files(s) : Region(s, g) \cap t.used = {}
  <1>1. s \in State /\ Distinct(s.dir)
    BY DEF Good, Named
  <1>2. q \in Seq(FileName) /\ Injective(q) /\ Among(q) = Files(s)
    BY <1>1, ListingFacts
  <1>3. PICK n \in Nat : n = Len(q) /\ DOMAIN q = 1 .. n
    BY <1>2
  <1>4. t = GoneFold!Folded(0, s, q)
    BY DEF FoldLeft, MapThenFoldSet, GoneFold!Folded, GoneFold!Max, Max, GoneStep
  <1>5. PICK h : GoneFold!Traces(0, s, q, n, h)
    BY <1>3, GoneFold!FoldSteps
  <1>5a. /\ h[0] = s
         /\ \A k \in 1 .. n : h[k] = GoneStep(0, h[k - 1], q[k])
         /\ GoneFold!Folded(0, s, q) = h[n]
    BY <1>5 DEF GoneFold!Traces
  <1> DEFINE A == {k \in 0 .. n : LeftOver(s, q, k, h[k])}
  <1>6. 0 \in A
    <2>1. 0 + 1 .. Len(q) = 1 .. n
      BY <1>3
    <2>2. \A g : g \in Files(s) <=> \E j \in 0 + 1 .. Len(q) : q[j] = g
      BY <1>2, <1>3, <2>1 DEF Among
    <2>4. \A j : j \notin 1 .. 0
      OBVIOUS
    <2>5. LeftOver(s, q, 0, s)
      BY <2>2, <2>4 DEF LeftOver
    <2>3. QED
      BY <1>5a, <2>5
  <1>7. ASSUME NEW k \in 0 .. n - 1, k \in A PROVE k + 1 \in A
    <2>1. k + 1 \in 1 .. n /\ k + 1 \in 0 .. n /\ (k + 1) - 1 = k
      OBVIOUS
    <2>2. LeftOver(s, q, k + 1, GoneStep(0, h[k], q[k + 1]))
      BY <1>2, <1>3, <1>7, GoneOneMore
    <2>3. h[k + 1] = GoneStep(0, h[k], q[k + 1])
      BY <1>5a, <2>1
    <2>4. QED
      BY <2>1, <2>2, <2>3
  <1>8. LeftOver(s, q, n, h[n])
    <2> HIDE DEF A
    <2>1. \A k \in 0 .. n : k \in A
      BY <1>6, <1>7, NameFold!CountingUp
    <2>2. QED
      BY <2>1 DEF A
  <1>9. \A g : g \notin Files(t)
    <2>1. \A j : j \notin n + 1 .. Len(q)
      BY <1>3
    <2>2. QED
      BY <1>4, <1>5a, <1>8, <2>1 DEF LeftOver
  <1>11. Cardinality(Spaces(s, q, 0)) <= Cardinality(Free(t))
    <2>1. 0 + 1 .. Len(q) = 1 .. n
      BY <1>3
    <2>2. \A j \in 1 .. n : Region(s, q[j]) \cap t.used = {}
      BY <1>4, <1>5a, <1>8 DEF LeftOver
    <2>3. \A j \in 1 .. n : Region(s, q[j]) \in SUBSET Sector
      BY <1>2, <1>3, RegionSize DEF Among
    <2>4. Spaces(s, q, 0) \in SUBSET Free(t)
      BY <2>1, <2>2, <2>3 DEF Spaces, Free
    <2>5. IsFiniteSet(Free(t))
      BY SectorsFinite DEF Free
    <2>6. QED
      BY <2>4, <2>5, FS_Subset
  <1>12. t.used \subseteq s.used /\ \A g \in Files(s) : Region(s, g) \cap t.used = {}
    <2>1. t.used \subseteq s.used /\ \A j \in 1 .. n : Region(s, q[j]) \cap t.used = {}
      BY <1>4, <1>5a, <1>8 DEF LeftOver
    <2>2. \A g \in Files(s) : \E j \in 1 .. n : q[j] = g
      BY <1>2, <1>3 DEF Among
    <2>3. QED
      BY <2>1, <2>2
  <1>10. QED
    BY <1>4, <1>5a, <1>8, <1>9, <1>11, <1>12 DEF LeftOver

-----------------------------------------------------------------------------
(* defragment: the string, and the files made of its pieces.               *)
GatherStep(e, text, f) ==
  text \o (IF Reading(e.now, f, SizeOf(e.now, f)) = <<>> THEN e.heap[f]
           ELSE String(Reading(e.now, f, SizeOf(e.now, f))))
GatherFold == INSTANCE FoldFacts WITH Op <- GatherStep

(* Gathered is the fold of GatherStep.                                     *)
LEMMA GatheredIs ==
  ASSUME NEW start, NEW heap, NEW e, e.now = Now, e.heap = heap
  PROVE  Gathered(start, heap) = GatherFold!Folded(e, start, Listing(Now))
  BY DEF Gathered, FoldLeft, MapThenFoldSet, GatherFold!Folded, GatherFold!Max, Max, GatherStep

\* What defragment finds: every file can be read, and memory holds bytes.
Readable(s, heap) ==
  /\ Good(s) /\ Clean(s) /\ Alive(s, {})
  /\ \A g \in Files(s) : PositionIn(s, g) \in Nat /\ heap[g] \in Seq(Byte)

(* One more file gathered: the string stays a string of bytes.             *)
LEMMA GatherStepType ==
  ASSUME NEW e, Readable(e.now, e.heap), NEW f \in Files(e.now), NEW text \in Seq(Byte)
  PROVE  GatherStep(e, text, f) \in Seq(Byte)
  <1>1. PICK s : s = e.now
    OBVIOUS
  <1>2. PICK n : n = SizeOf(s, f)
    OBVIOUS
  <1>3. PICK b : b = Reading(s, f, n)
    OBVIOUS
  <1>4. Good(s) /\ Alive(s, {}) /\ f \in Files(s) /\ PositionIn(s, f) \in Nat
    BY <1>1 DEF Readable
  <1>5. n \in Nat
    BY <1>2, <1>4, SizeOfType
  <1>6. b \in Seq(Byte)
    <2>1. f \notin {}
      OBVIOUS
    <2>2. PICK u : u = ReadFrom(s, f, n)
      OBVIOUS
    <2>3. QED
      BY <1>3, <1>4, <1>5, <2>1, <2>2, ReadFromServes
  <1>7. PICK z \in Seq(Byte) : z = IF b = <<>> THEN e.heap[f] ELSE String(b)
    BY <1>6, StringType DEF Readable
  <1>8. GatherStep(e, text, f) = text \o z
    BY <1>1, <1>2, <1>3, <1>7 DEF GatherStep
  <1>9. QED
    BY <1>8

(* What defragment gathers are bytes.                                      *)
LEMMA GatheredType ==
  ASSUME NEW s, s = Now, NEW heap, Readable(s, heap), NEW start \in Seq(Byte)
  PROVE  Gathered(start, heap) \in Seq(Byte)
  <1>1. PICK e : e = [now |-> s, heap |-> heap]
    OBVIOUS
  <1>2. e.now = s /\ e.heap = heap
    BY <1>1
  <1>3. s \in State /\ Distinct(s.dir)
    BY DEF Readable, Good, Named
  <1>4. PICK q \in Seq(FileName) : q = Listing(s) /\ Among(q) = Files(s)
    BY <1>3, ListingFacts
  <1>5. PICK n \in Nat : n = Len(q) /\ DOMAIN q = 1 .. n
    OBVIOUS
  <1>6. Gathered(start, heap) = GatherFold!Folded(e, start, q)
    <2>1. e.now = Now /\ q = Listing(Now)
      BY <1>2, <1>4
    <2>2. QED
      BY <1>2, <2>1, GatheredIs
  <1>7. PICK h : GatherFold!Traces(e, start, q, n, h)
    BY <1>5, GatherFold!FoldSteps
  <1>8. /\ h[0] = start
        /\ \A k \in 1 .. n : h[k] = GatherStep(e, h[k - 1], q[k])
        /\ GatherFold!Folded(e, start, q) = h[n]
    BY <1>7 DEF GatherFold!Traces
  <1> DEFINE A == {k \in 0 .. n : h[k] \in Seq(Byte)}
  <1>9. 0 \in A
    BY <1>8
  <1>10. ASSUME NEW k \in 0 .. n - 1, k \in A PROVE k + 1 \in A
    <2>1. k + 1 \in 1 .. n /\ k + 1 \in 0 .. n /\ (k + 1) - 1 = k
      OBVIOUS
    <2>2. q[k + 1] \in Files(e.now)
      BY <1>2, <1>4, <1>5, <2>1 DEF Among
    <2>3. Readable(e.now, e.heap)
      BY <1>2
    <2>4. h[k] \in Seq(Byte)
      BY <1>10
    <2>5. GatherStep(e, h[k], q[k + 1]) \in Seq(Byte)
      BY <2>2, <2>3, <2>4, GatherStepType
    <2>6. h[k + 1] = GatherStep(e, h[k], q[k + 1])
      BY <1>8, <2>1
    <2>7. QED
      BY <2>1, <2>5, <2>6
  <1>11. h[n] \in Seq(Byte)
    <2> HIDE DEF A
    <2>1. \A k \in 0 .. n : k \in A
      BY <1>9, <1>10, NameFold!CountingUp
    <2>2. QED
      BY <2>1 DEF A
  <1>12. QED
    BY <1>6, <1>8, <1>11

(* A piece of what was gathered is as many bytes as asked for.             *)
LEMMA PieceType ==
  ASSUME NEW text \in Seq(Byte), NEW p \in Nat, NEW n \in Nat, NEW heap \in Seq(Byte)
  PROVE  Piece(text, p, n, heap) \in Seq(Byte) /\ Len(Piece(text, p, n, heap)) = n
  <1>1. PICK m \in Nat : m = Len(text)
    OBVIOUS
  <1>2. PICK rest \in Seq(Byte) :
          rest = IF p <= Len(text) THEN SubSeq(text, p + 1, Len(text)) ELSE heap
    <2>1. CASE p <= m
      <3>1. p + 1 \in 1 .. m + 1 /\ \A j \in p + 1 .. m : j \in 1 .. m
        BY <2>1
      <3>2. SubSeq(text, p + 1, m) \in Seq(Byte)
        BY <1>1, <3>1
      <3>3. QED
        BY <1>1, <2>1, <3>2
    <2>2. CASE ~(p <= m)
      BY <1>1, <2>2
    <2>3. QED
      BY <2>1, <2>2
  <1>3. PICK l \in Nat : l = Len(rest)
    OBVIOUS
  <1> DEFINE e(k) == IF k <= Len(rest) THEN rest[k] ELSE Nul
  <1>4. \A k \in 1 .. n : e(k) \in Byte
    <2>1. Nul \in Byte
      BY DEF Byte
    <2>2. \A k \in 1 .. n : k <= l => rest[k] \in Byte
      BY <1>3
    <2>3. QED
      BY <1>3, <2>1, <2>2
  <1>5. Piece(text, p, n, heap) = [k \in 1 .. n |-> e(k)]
    BY <1>2, Zenon DEF Piece
  <1> HIDE DEF e
  <1>6. [k \in 1 .. n |-> e(k)] \in Seq(Byte) /\ Len([k \in 1 .. n |-> e(k)]) = n
    BY <1>4
  <1>7. QED
    BY <1>5, <1>6

RecreateStep(e, t, f) ==
  LET n == SizeOf(e.now, f)
      made == Created(t.state, f, n)
  IN [state |-> IF f \in Files(made) THEN WroteTo(made, f, Piece(e.text, t.at, n, e.heap[f])) ELSE made,
      at |-> t.at + n]
RecreateFold == INSTANCE FoldFacts WITH Op <- RecreateStep

Recreates(e, s) == RecreateFold!Folded(e, [state |-> s, at |-> 0], Listing(e.now)).state

(* Recreated is the fold of RecreateStep.                                  *)
LEMMA RecreatedIs ==
  ASSUME NEW s, NEW text, NEW heap, NEW e, e.now = Now, e.text = text, e.heap = heap
  PROVE  Recreated(s, text, heap) = Recreates(e, s)
  BY DEF Recreates, Recreated, FoldLeft, MapThenFoldSet, RecreateFold!Folded, RecreateFold!Max, Max,
         RecreateStep

\* f is there on t, open at its end, and as long as on s.
Sized(s, t, f) ==
  /\ f \in Files(t) /\ f \in DOMAIN t.table
  /\ Len(Contents(t, f)) = SizeOf(s, f) /\ t.table[f].pos = SizeOf(s, f) - 2

\* t has made the first k files of q, and has room for the others.
Remade(s, q, k, t) ==
  /\ Good(t.state) /\ Clean(t.state) /\ Alive(t.state, {}) /\ t.at \in Nat
  /\ \A g \in Files(t.state) : \E j \in 1 .. k : q[j] = g
  /\ \A j \in 1 .. k : Sized(s, t.state, q[j])
  /\ Cardinality(Spaces(s, q, k)) <= Cardinality(Free(t.state))

\* t is s with a file f of n bytes, which took no more sectors than those need.
Returns(s, f, n, t) ==
  /\ Files(t) = Files(s) \cup {f} /\ f \in DOMAIN t.table
  /\ \A g \in Files(s) : Contents(t, g) = Contents(s, g)
  /\ \A g \in DOMAIN s.table : g \in DOMAIN t.table /\ t.table[g] = s.table[g]
  /\ Len(Contents(t, f)) = n /\ t.table[f].pos = n - 2
  /\ Cardinality(Free(t)) = Cardinality(Free(s)) - (1 + SectorsFor(n))

(* A file that has just been created is not open, and as long as its piece.*)
LEMMA RemadeOne ==
  ASSUME NEW s, Good(s), Clean(s), Alive(s, {}), NEW f \in FileName \ Files(s),
         NEW n \in 0 .. MaxLength, NEW piece \in Seq(Byte), Len(piece) = n,
         1 + SectorsFor(n) <= Cardinality(Free(s)),
         NEW made, made = Created(s, f, n),
         NEW t, t = IF f \in Files(made) THEN WroteTo(made, f, piece) ELSE made
  PROVE  /\ Good(t) /\ Clean(t) /\ Alive(t, {}) /\ Returns(s, f, n, t)
         /\ Packed(s) => Packed(t)
  <1>1. Creates(s, f, n, made) /\ Grants(s, f, n, made)
    BY CreatedKeeps, CreatedContents
  <1>2. /\ Good(made) /\ Clean(made) /\ made.table = s.table /\ made.inodes = s.inodes
        /\ Files(s) \subseteq Files(made) /\ Files(made) \subseteq Files(s) \cup {f}
        /\ \A g \in Files(made) \ Files(s) : Mem(made, g).len = n
    BY <1>1 DEF Creates
  <1>3. Alive(made, {})
    <2>1. \A g \in DOMAIN s.table : g \in Files(s) /\ InodeOf(made, g) = InodeOf(s, g)
      BY <1>1 DEF Creates, Good, Held
    <2>2. QED
      BY <1>2, <2>1 DEF Alive
  <1>4. /\ f \in Files(made)
        /\ Cardinality(Free(made)) = Cardinality(Free(s)) - (1 + SectorsFor(n))
        /\ Placed(s, f, n, made)
    BY CreatedRoom
  <1>5. t = WroteTo(made, f, piece)
    BY <1>4
  <1>6. f \notin DOMAIN made.table /\ f \notin DOMAIN s.table
    BY <1>2 DEF Good, Held
  <1>7. PositionIn(made, f) = 0
    BY <1>6 DEF PositionIn
  <1>8. Mem(made, f).len = n /\ n \in Nat
    BY <1>2, <1>4, FilesAssumption
  <1>9. /\ PositionIn(made, f) \in Nat /\ PositionIn(made, f) + Len(piece) <= MaxLength
        /\ PositionIn(made, f) + Len(piece) = 0 => Mem(made, f).len = 0
    <2>1. 0 + n <= MaxLength /\ (0 + n = 0 => n = 0)
      BY FilesAssumption
    <2>2. QED
      BY <1>7, <1>8, <2>1
  <1>10. f \notin {}
    OBVIOUS
  <1>11. PICK b \in Seq(Byte) : b = Terminated(piece) /\ Len(b) = n
    BY TerminatedIs
  <1>12. /\ Good(t) /\ Clean(t) /\ Files(t) = Files(made) /\ Alive(t, {})
         /\ DOMAIN t.table = DOMAIN made.table \cup {f} /\ Wrote(made, f, b, t) /\ Rests(made, t)
    BY <1>2, <1>3, <1>4, <1>5, <1>9, <1>10, <1>11, WroteToKeeps
  <1>13. PICK c \in Seq(Byte) : c = Contents(made, f) /\ Len(c) = n
    BY <1>2, <1>4, <1>8, ContentsAre
  <1>14. /\ \A g \in Files(made) : g # f => Contents(t, g) = Contents(made, g)
         /\ \A g \in DOMAIN made.table : g # f => t.table[g] = made.table[g]
    BY <1>12 DEF Wrote
  <1>15. \/ Contents(t, f) = c /\ t.table[f].pos = 0 - 2 /\ Len(c) < 0 + Len(b)
         \/ /\ Contents(t, f) = Store!Spliced(c, 0, b) /\ t.table[f].pos = 0 + Len(b) - 2
            /\ 0 + Len(b) <= Len(c) => t.used = made.used
    BY <1>7, <1>12, <1>13, Zenon DEF Wrote
  <1>16. ~(Len(c) < 0 + Len(b)) /\ 0 + Len(b) <= Len(c) /\ 0 + Len(b) - 2 = n - 2
    BY <1>8, <1>11, <1>13
  <1>17. Contents(t, f) = Store!Spliced(c, 0, b) /\ t.table[f].pos = n - 2 /\ t.used = made.used
    BY <1>15, <1>16
  <1>18. Store!Spliced(c, 0, b) = b
    BY <1>11, <1>13, SplicedWhole
  <1>19. Free(t) = Free(made)
    BY <1>17 DEF Free
  <1>20. \A g \in Files(s) : Contents(t, g) = Contents(s, g)
    BY <1>1, <1>2, <1>14 DEF Grants
  <1>21. Files(t) = Files(s) \cup {f}
    BY <1>2, <1>4, <1>12
  <1>22. \A g \in DOMAIN s.table : g \in DOMAIN t.table /\ t.table[g] = s.table[g]
    BY <1>2, <1>6, <1>12, <1>14
  <1>23. Len(Contents(t, f)) = n
    BY <1>11, <1>17, <1>18
  <1>24. ASSUME Packed(s) PROVE Packed(t)
    <2>1. (\E m \in Nat : made.used = 0 .. m - 1) /\ Run(Mem(made, f))
      BY <1>4, <1>8, <1>24, PlacedPacked
    <2>2. ASSUME NEW g \in Files(made) PROVE Run(Mem(made, g))
      <3>1. CASE g = f
        BY <2>1, <3>1
      <3>2. CASE g # f
        <4>1. g \in Files(s) /\ Mem(made, g) = Mem(s, g)
          BY <1>1, <1>2, <3>2 DEF Creates
        <4>2. QED
          BY <1>24, <4>1 DEF Packed
      <3>3. QED
        BY <3>1, <3>2
    <2>3. ASSUME NEW g \in Files(made) PROVE Run(Mem(t, g))
      <3>1. PICK x \in InodeRec : x = Mem(made, g)
        BY <1>2, MemFacts
      <3>2. Len(Contents(t, g)) = Mem(t, g).len /\ Len(Contents(made, g)) = x.len
        BY <1>2, <1>12, <3>1, ContentsAre
      <3>3. Len(Contents(t, g)) = Len(Contents(made, g))
        BY <1>13, <1>14, <1>23
      <3>4. Begins(x, Mem(t, g))
        BY <1>12, <3>1 DEF Rests
      <3>5. QED
        BY <2>2, <3>1, <3>2, <3>3, <3>4, RunKeeps
    <2>4. QED
      BY <1>12, <1>17, <2>1, <2>3 DEF Packed
  <1>25. QED
    BY <1>4, <1>12, <1>17, <1>19, <1>20, <1>21, <1>22, <1>23, <1>24 DEF Returns

(* One more file made again.                                               *)
LEMMA RemadeMore ==
  ASSUME NEW e, Good(e.now), Clean(e.now), e.text \in Seq(Byte),
         \A g \in Files(e.now) : e.heap[g] \in Seq(Byte),
         NEW q \in Seq(FileName), Injective(q), Among(q) = Files(e.now), NEW k \in 0 .. Len(q) - 1,
         q[k + 1] \in Files(e.now), NEW t, Remade(e.now, q, k, t)
  PROVE  /\ Remade(e.now, q, k + 1, RecreateStep(e, t, q[k + 1]))
         /\ Packed(t.state) => Packed(RecreateStep(e, t, q[k + 1]).state)
  <1>1. PICK m \in Nat : m = Len(q)
    OBVIOUS
  <1>2. k \in Nat /\ k + 1 \in 1 .. m
    BY <1>1
  <1>3. PICK f \in FileName : f = q[k + 1]
    BY <1>1, <1>2
  <1>4. PICK n \in 0 .. MaxLength : n = SizeOf(e.now, f)
    BY <1>3, SizeOfType
  <1>5. n \in Nat
    BY FilesAssumption
  <1>6. PICK s : s = t.state
    OBVIOUS
  <1>7. PICK p \in Nat : p = t.at
    BY DEF Remade
  <1>8. /\ Good(s) /\ Clean(s) /\ Alive(s, {}) /\ \A g \in Files(s) : \E j \in 1 .. k : q[j] = g
        /\ \A j \in 1 .. k : Sized(e.now, s, q[j])
        /\ Cardinality(Spaces(e.now, q, k)) <= Cardinality(Free(s))
    BY <1>6 DEF Remade
  <1>20. PICK w \in Nat : w = SectorsFor(n)
    BY <1>5, SectorsForType
  <1>21. PICK r \in Nat : /\ r = Cardinality(Spaces(e.now, q, k + 1))
                          /\ Cardinality(Spaces(e.now, q, k)) = (1 + w) + r
    <2>1. /\ Spaces(e.now, q, k + 1) \in SUBSET Sector
          /\ Cardinality(Spaces(e.now, q, k)) = (1 + SectorsFor(SizeOf(e.now, q[k + 1])))
                                                  + Cardinality(Spaces(e.now, q, k + 1))
      BY SpacesNext
    <2>2. Cardinality(Spaces(e.now, q, k + 1)) \in Nat
      BY <2>1, SectorsFinite
    <2>3. QED
      BY <1>3, <1>4, <1>20, <2>1, <2>2
  <1>22. PICK c \in Nat : c = Cardinality(Free(s)) /\ (1 + w) + r <= c
    <2>1. Cardinality(Free(s)) \in Nat
      BY SectorsFinite DEF Free
    <2>2. QED
      BY <1>8, <1>21, <2>1
  <1>9. f \notin Files(s)
    <2>1. SUFFICES ASSUME f \in Files(s) PROVE FALSE
      OBVIOUS
    <2>2. PICK j \in 1 .. k : q[j] = f
      BY <1>8, <2>1
    <2>3. j \in 1 .. m /\ j # k + 1
      BY <1>2
    <2>4. QED
      BY <1>1, <1>2, <1>3, <2>2, <2>3 DEF Injective
  <1>10. PICK piece \in Seq(Byte) : piece = Piece(e.text, p, n, e.heap[f]) /\ Len(piece) = n
    BY <1>3, <1>5, PieceType
  <1>11. PICK made : made = Created(s, f, n)
    OBVIOUS
  <1>12. PICK u : u = IF f \in Files(made) THEN WroteTo(made, f, piece) ELSE made
    OBVIOUS
  <1>13. /\ Good(u) /\ Clean(u) /\ Alive(u, {}) /\ Returns(s, f, n, u)
         /\ Packed(s) => Packed(u)
    <2>1. 1 + SectorsFor(n) <= Cardinality(Free(s))
      BY <1>20, <1>22
    <2>2. QED
      BY <1>8, <1>9, <1>10, <1>11, <1>12, <2>1, RemadeOne
  <1>23. /\ Files(u) = Files(s) \cup {f} /\ f \in DOMAIN u.table
         /\ \A g \in Files(s) : Contents(u, g) = Contents(s, g)
         /\ \A g \in DOMAIN s.table : g \in DOMAIN u.table /\ u.table[g] = s.table[g]
         /\ Len(Contents(u, f)) = n /\ u.table[f].pos = n - 2
         /\ Cardinality(Free(u)) = Cardinality(Free(s)) - (1 + SectorsFor(n))
    BY <1>13 DEF Returns
  <1>24. Cardinality(Spaces(e.now, q, k + 1)) <= Cardinality(Free(u))
    <2>1. Cardinality(Free(u)) = c - (1 + w)
      BY <1>20, <1>22, <1>23
    <2>2. r <= c - (1 + w)
      BY <1>22
    <2>3. QED
      BY <1>21, <2>1, <2>2
  <1>25. ASSUME NEW j \in 1 .. k + 1 PROVE Sized(e.now, u, q[j])
    <2>1. CASE j = k + 1
      <3>1. q[j] = f /\ SizeOf(e.now, f) = n
        BY <1>3, <1>4, <2>1
      <3>2. QED
        BY <1>23, <3>1 DEF Sized
    <2>2. CASE j # k + 1
      <3>1. j \in 1 .. k
        BY <1>2, <2>2
      <3>2. PICK g : g = q[j] /\ Sized(e.now, s, g)
        BY <1>8, <3>1
      <3>3. /\ g \in Files(s) /\ g \in DOMAIN s.table
            /\ Len(Contents(s, g)) = SizeOf(e.now, g) /\ s.table[g].pos = SizeOf(e.now, g) - 2
        BY <3>2 DEF Sized
      <3>4. QED
        BY <1>23, <3>2, <3>3 DEF Sized
    <2>3. QED
      BY <2>1, <2>2
  <1>14. RecreateStep(e, t, f) = [state |-> u, at |-> p + n]
    BY <1>4, <1>6, <1>7, <1>10, <1>11, <1>12, Zenon DEF RecreateStep
  <1>15. PICK v : v = RecreateStep(e, t, f)
    OBVIOUS
  <1>16. v.state = u /\ v.at = p + n /\ p + n \in Nat
    BY <1>5, <1>14, <1>15
  <1>17. ASSUME NEW g \in Files(u) PROVE \E j \in 1 .. k + 1 : q[j] = g
    <2>1. CASE g = f
      <3>1. k + 1 \in 1 .. k + 1
        BY <1>2
      <3>2. QED
        BY <1>3, <2>1, <3>1
    <2>2. CASE g # f
      <3>1. PICK j \in 1 .. k : q[j] = g
        BY <1>8, <1>23, <2>2
      <3>2. j \in 1 .. k + 1
        BY <1>2
      <3>3. QED
        BY <3>1, <3>2
    <2>3. QED
      BY <2>1, <2>2
  <1>18. Remade(e.now, q, k + 1, v)
    BY <1>13, <1>16, <1>17, <1>24, <1>25 DEF Remade
  <1>19. Packed(t.state) => Packed(v.state)
    BY <1>6, <1>13, <1>16
  <1>26. QED
    BY <1>3, <1>15, <1>18, <1>19

\* t has the files of s, open at their ends, and each as long as it is on s.
Restores(s, t) ==
  /\ Files(t) = Files(s) /\ DOMAIN t.table = Files(s)
  /\ \A f \in Files(s) : Sized(s, t, f)

(* Making every file again keeps the invariant, and every one of them fits.*)
LEMMA RecreatesKeeps ==
  ASSUME NEW e, Good(e.now), Clean(e.now), e.text \in Seq(Byte),
         \A g \in Files(e.now) : e.heap[g] \in Seq(Byte),
         NEW s, Good(s), Clean(s), Alive(s, {}), Files(s) = {},
         Cardinality(Spaces(e.now, Listing(e.now), 0)) <= Cardinality(Free(s)),
         NEW t, t = Recreates(e, s)
  PROVE  /\ Good(t) /\ Clean(t) /\ Alive(t, {}) /\ Restores(e.now, t)
         /\ Packed(s) => Packed(t)
  <1>1. e.now \in State /\ Distinct(e.now.dir)
    BY DEF Good, Named
  <1>2. PICK q \in Seq(FileName) : q = Listing(e.now) /\ Injective(q) /\ Among(q) = Files(e.now)
    BY <1>1, ListingFacts
  <1>3. PICK n \in Nat : n = Len(q) /\ DOMAIN q = 1 .. n
    OBVIOUS
  <1>4. PICK b : b = [state |-> s, at |-> 0]
    OBVIOUS
  <1>5. t = RecreateFold!Folded(e, b, q).state
    BY <1>2, <1>4 DEF Recreates
  <1>6. PICK h : RecreateFold!Traces(e, b, q, n, h)
    BY <1>3, RecreateFold!FoldSteps
  <1>7. /\ h[0] = b
        /\ \A k \in 1 .. n : h[k] = RecreateStep(e, h[k - 1], q[k])
        /\ RecreateFold!Folded(e, b, q) = h[n]
    BY <1>6 DEF RecreateFold!Traces
  <1> DEFINE A == {k \in 0 .. n : Remade(e.now, q, k, h[k]) /\ (Packed(s) => Packed(h[k].state))}
  <1>8. 0 \in A
    <2>1. b.state = s /\ b.at = 0
      BY <1>4
    <2>2. \A j : j \notin 1 .. 0
      OBVIOUS
    <2>3. Remade(e.now, q, 0, b)
      BY <1>2, <2>1, <2>2 DEF Remade
    <2>4. QED
      BY <1>7, <2>1, <2>3
  <1>9. ASSUME NEW k \in 0 .. n - 1, k \in A PROVE k + 1 \in A
    <2>1. k + 1 \in 1 .. n /\ k + 1 \in 0 .. n /\ (k + 1) - 1 = k
      OBVIOUS
    <2>2. q[k + 1] \in Files(e.now)
      BY <1>2, <1>3, <2>1 DEF Among
    <2>3. /\ Remade(e.now, q, k + 1, RecreateStep(e, h[k], q[k + 1]))
          /\ Packed(h[k].state) => Packed(RecreateStep(e, h[k], q[k + 1]).state)
      BY <1>2, <1>3, <1>9, <2>2, RemadeMore
    <2>4. h[k + 1] = RecreateStep(e, h[k], q[k + 1])
      BY <1>7, <2>1
    <2>5. Packed(s) => Packed(h[k].state)
      BY <1>9
    <2>6. QED
      BY <2>1, <2>3, <2>4, <2>5
  <1>10. Remade(e.now, q, n, h[n]) /\ (Packed(s) => Packed(h[n].state))
    <2> HIDE DEF A
    <2>1. \A k \in 0 .. n : k \in A
      BY <1>8, <1>9, NameFold!CountingUp
    <2>2. QED
      BY <2>1 DEF A
  <1>12. t = h[n].state
    BY <1>5, <1>7
  <1>13. /\ Good(t) /\ Clean(t) /\ Alive(t, {})
         /\ \A g \in Files(t) : \E j \in 1 .. n : q[j] = g
         /\ \A j \in 1 .. n : Sized(e.now, t, q[j])
    BY <1>10, <1>12 DEF Remade
  <1>14. \A f \in Files(e.now) : Sized(e.now, t, f)
    <2>1. \A f \in Files(e.now) : \E j \in 1 .. n : q[j] = f
      BY <1>2, <1>3 DEF Among
    <2>2. QED
      BY <1>13, <2>1
  <1>15. Files(t) = Files(e.now)
    <2>1. \A j \in 1 .. n : q[j] \in Files(e.now)
      BY <1>2, <1>3 DEF Among
    <2>2. Files(t) \subseteq Files(e.now)
      BY <1>13, <2>1
    <2>3. \A f \in Files(e.now) : f \in Files(t)
      BY <1>14, Zenon DEF Sized
    <2>4. QED
      BY <2>2, <2>3
  <1>16. DOMAIN t.table = Files(e.now)
    <2>1. \A f \in DOMAIN t.table : f \in Files(t)
      BY <1>13 DEF Good, Held
    <2>2. QED
      BY <1>14, <1>15, <2>1 DEF Sized
  <1>17. Packed(s) => Packed(t)
    BY <1>10, <1>12
  <1>11. QED
    BY <1>13, <1>14, <1>15, <1>16, <1>17 DEF Restores

-----------------------------------------------------------------------------
(* recover(0).                                                             *)
Relinking(s, F, t) ==
  /\ Good(t) /\ t.used = s.used /\ t.table = s.table /\ Alive(t, F)
  /\ t.disk = s.disk /\ \A g \in Files(s) : g \in Files(t) /\ InodeOf(t, g) = InodeOf(s, g)

(* Linking one freed inode again keeps the invariant.                      *)
LEMMA RelinkedKeeps ==
  ASSUME NEW s, Good(s), NEW i \in Sector \ s.used, NEW F, Alive(s, F), NEW t, t = Relinked(s, i)
  PROVE  Relinking(s, F, t)
  <1>1. s \in State /\ i \in Sector /\ i \notin System /\ Distinct(s.dir)
    BY DEF Good, Named
  <1>2. /\ s.disk \in [Sector -> Record] /\ s.inodes \in [Sector -> Record \cup {NotOpen}]
    BY <1>1, StateFields
  <1>3. PICK x \in Record : x = s.disk[i] /\ InMemory(s, i) = x
    BY <1>2 DEF InMemory, Good, Spare
  <1>4. PICK m \in [Sector -> Record \cup {NotOpen}] : m = [s.inodes EXCEPT ![i] = x]
    BY <1>2
  <1>5. m[i] = x /\ \A j \in Sector : j # i => m[j] = s.inodes[j]
    BY <1>1, <1>2, <1>4
  <1>6. PICK o : o = PutInodes(s, m)
    OBVIOUS
  <1>7. /\ o \in State /\ o.inodes = m /\ o.used = s.used
        /\ o.disk = s.disk /\ o.dir = s.dir /\ o.table = s.table
    BY <1>1, <1>6, WithInodes
  <1>8. Frame(s, o)
    BY <1>7 DEF Frame
  <1>9. Files(o) = Files(s) /\ \A f : InodeOf(o, f) = InodeOf(s, f)
    BY <1>8, FrameFiles
  <1>10. Held(o)
    BY <1>7, <1>9 DEF Good, Held
  <1>11. Owners(o)
    <2>1. \A j \in s.used : j # i /\ j \in Sector
      BY <1>1, StateFields
    <2>2. QED
      BY <1>5, <1>7, <2>1 DEF Good, Owners
  <1>12. \A j \in Sector : o.inodes[j] \in {s.inodes[j], NotOpen, s.disk[j]}
    BY <1>3, <1>5, <1>7
  <1>13. Good(o)
    BY <1>7, <1>8, <1>10, <1>11, <1>12, MemoryKeeps
  <1>14. \A j \in Sector : s.inodes[j] # NotOpen => m[j] # NotOpen
    BY <1>5, NotOpenIsNone
  <1>15. \A g \in DOMAIN s.table : g \in Files(s) /\ InodeOf(s, g) \in Sector
    <2>1. \A g \in Files(s) : InodeOf(s, g) \in Sector
      BY MemFacts
    <2>2. QED
      BY <2>1 DEF Good, Held
  <1>16. Alive(o, F)
    BY <1>7, <1>9, <1>14, <1>15 DEF Alive
  <1>17. CASE x.kind = "inode" /\ Recovered(i) \notin Files(s)
    <2>1. PICK f \in FileName \ Files(o) : f = Recovered(i)
      BY <1>1, <1>9, <1>17 DEF FileName
    <2>2. t = PutDir(o, Added(o.dir, f, i))
      <3>1. o = [s EXCEPT !.inodes[i] = InMemory(s, i)]
        BY <1>3, <1>4, <1>6, Zenon DEF PutInodes
      <3>2. Relinked(s, i) = [o EXCEPT !.dir = Added(@, f, i)]
        BY <1>3, <1>17, <2>1, <3>1, Zenon DEF Relinked
      <3>3. QED
        BY <3>2, Zenon DEF PutDir
    <2>3. i \in Sector \ System
      BY <1>1
    <2>4. Added(o.dir, f, i) \in Seq({NoEntry} \cup DirEntry)
      <3>1. o.dir \in Seq({NoEntry} \cup DirEntry)
        BY <1>7, StateFields
      <3>2. QED
        BY <2>3, <3>1, AddedSlot
    <2>5. /\ t \in State /\ t.dir = Added(o.dir, f, i) /\ t.used = o.used
          /\ t.disk = o.disk /\ t.inodes = o.inodes /\ t.table = o.table
      BY <1>7, <2>2, <2>4, WithDir
    <2>6. \A g \in Files(o) : InodeOf(o, g) # i
      <3>1. SUFFICES ASSUME NEW g \in Files(o), InodeOf(o, g) = i PROVE FALSE
        OBVIOUS
      <3>2. g \notin Kept(o)
        BY <1>7, <3>1 DEF Kept
      <3>3. g = Recovered(i)
        BY <1>13, <3>1, <3>2 DEF Good, Strays
      <3>4. QED
        BY <2>1, <3>1, <3>3
    <2>7. x \in InodeRec
      BY <1>17, NotOpenIsNone DEF Record
    <2>8. o.disk[i] = x /\ o.inodes[i] = x /\ i \notin o.used
      BY <1>3, <1>5, <1>7
    <2>9. Good(t) /\ \A g \in Files(t) : InodeOf(t, g) = IF g = f THEN i ELSE InodeOf(o, g)
      <3>1. /\ i \in o.used => Unclaimed(o, i, x)
            /\ i \notin o.used => f = Recovered(i)
            /\ o.inodes[i] # NotOpen => o.inodes[i] = x
        BY <2>1, <2>8
      <3>2. Good(t)
        BY <1>13, <2>1, <2>3, <2>5, <2>6, <2>7, <2>8, <3>1, EntryKeeps
      <3>3. Distinct(o.dir)
        BY <1>1, <1>7
      <3>4. ASSUME NEW g \in Files(t) PROVE InodeOf(t, g) = IF g = f THEN i ELSE InodeOf(o, g)
        BY <1>7, <2>1, <2>3, <2>5, <3>3, AddedInodes
      <3>5. QED
        BY <3>2, <3>4
    <2>10. Alive(t, F)
      <3>1. \A g \in DOMAIN t.table : g \in Files(t) /\ g \in Files(o)
        BY <1>13, <2>5, <2>9 DEF Good, Held
      <3>2. \A g \in DOMAIN t.table : InodeOf(t, g) = InodeOf(o, g)
        BY <2>1, <2>9, <3>1
      <3>3. QED
        BY <1>16, <2>5, <3>2 DEF Alive
    <2>11. \A g \in Files(s) : g \in Files(t) /\ InodeOf(t, g) = InodeOf(s, g)
      <3>1. Distinct(o.dir)
        BY <1>1, <1>7
      <3>2. Files(t) = Files(o) \cup {f}
        BY <1>7, <2>1, <2>3, <2>5, <3>1, AddedIs
      <3>3. QED
        BY <1>9, <2>1, <2>9, <3>2
    <2>12. QED
      BY <1>7, <2>5, <2>9, <2>10, <2>11 DEF Relinking
  <1>18. CASE ~(x.kind = "inode" /\ Recovered(i) \notin Files(s))
    <2>1. o = [s EXCEPT !.inodes[i] = InMemory(s, i)]
      BY <1>3, <1>4, <1>6, Zenon DEF PutInodes
    <2>2. t = o
      BY <1>3, <1>18, <2>1, Zenon DEF Relinked
    <2>3. QED
      BY <1>7, <1>9, <1>13, <1>16, <2>2 DEF Relinking
  <1>19. QED
    BY <1>17, <1>18

RelinkStep(e, s, i) == Relinked(s, i)
RelinkFold == INSTANCE FoldFacts WITH Op <- RelinkStep

(* Linking every free sector that looks like an inode keeps the invariant. *)
LEMMA RecoverKeeps ==
  ASSUME NEW s, Good(s), NEW F, Alive(s, F),
         NEW t, t = FoldLeft(Relinked, s, Ascending(Free(s)))
  PROVE  Relinking(s, F, t)
  <1>1. s.used \in SUBSET Sector
    BY StateFields DEF Good
  <1>2. Free(s) \in SUBSET Sector /\ Free(s) = Sector \ s.used
    BY DEF Free
  <1>3. PICK q \in Seq(Free(s)) : q = Ascending(Free(s))
    BY <1>2, AscendingFacts
  <1>4. PICK n \in Nat : n = Len(q) /\ DOMAIN q = 1 .. n
    OBVIOUS
  <1>5. t = RelinkFold!Folded(0, s, q)
    BY <1>3 DEF FoldLeft, MapThenFoldSet, RelinkFold!Folded, RelinkFold!Max, Max, RelinkStep
  <1>6. PICK h : RelinkFold!Traces(0, s, q, n, h)
    BY <1>4, RelinkFold!FoldSteps
  <1>7. /\ h[0] = s
        /\ \A k \in 1 .. n : h[k] = RelinkStep(0, h[k - 1], q[k])
        /\ RelinkFold!Folded(0, s, q) = h[n]
    BY <1>6 DEF RelinkFold!Traces
  <1> DEFINE A == {k \in 0 .. n : Relinking(s, F, h[k])}
  <1>8. 0 \in A
    BY <1>7 DEF Relinking
  <1>9. ASSUME NEW k \in 0 .. n - 1, k \in A PROVE k + 1 \in A
    <2>1. k + 1 \in 1 .. n /\ k + 1 \in 0 .. n /\ (k + 1) - 1 = k
      OBVIOUS
    <2>2. Relinking(s, F, h[k])
      BY <1>9
    <2>3. q[k + 1] \in Sector \ h[k].used
      BY <1>2, <1>4, <2>1, <2>2 DEF Relinking
    <2>4. h[k + 1] = Relinked(h[k], q[k + 1])
      BY <1>7, <2>1 DEF RelinkStep
    <2>5. Relinking(h[k], F, h[k + 1])
      BY <2>2, <2>3, <2>4, RelinkedKeeps DEF Relinking
    <2>6. Relinking(s, F, h[k + 1])
      BY <2>2, <2>5 DEF Relinking
    <2>7. QED
      BY <2>1, <2>6
  <1>10. Relinking(s, F, h[n])
    <2> HIDE DEF A
    <2>1. \A k \in 0 .. n : k \in A
      BY <1>8, <1>9, NameFold!CountingUp
    <2>2. QED
      BY <2>1 DEF A
  <1>11. QED
    BY <1>5, <1>7, <1>10

-----------------------------------------------------------------------------
(* The inductive invariant.                                                *)
IInv ==
  /\ Good(Now) /\ freed \subseteq DOMAIN table /\ Alive(Now, freed)
  /\ out \in Seq(Byte) /\ changes \in 0 .. MaxChanges /\ DOMAIN removed \subseteq Sector

(* The state record is the variables.                                      *)
LEMMA NowIs ==
  /\ Now.used = used /\ Now.disk = disk /\ Now.dir = dir
  /\ Now.inodes = inodes /\ Now.table = table
  BY DEF Now

(* A command that becomes t leaves the variables as t has them.            *)
LEMMA BecomesNow ==
  ASSUME NEW t \in State, Becomes(t)
  PROVE  Now' = t
  <1>1. t = [used |-> t.used, disk |-> t.disk, dir |-> t.dir, inodes |-> t.inodes, table |-> t.table]
    BY DEF State
  <1>2. Now' = [used |-> used', disk |-> disk', dir |-> dir', inodes |-> inodes', table |-> table']
    BY DEF Now
  <1>3. QED
    BY <1>1, <1>2 DEF Becomes

(* Settled is Clean, said of the variables.                                *)
LEMMA SettledIsClean == Settled <=> Clean(Now)
  BY NowIs DEF Settled, Clean

(* The position of a file, said of the state record.                       *)
LEMMA PositionIs ==
  ASSUME NEW f
  PROVE  Position(f) = PositionIn(Now, f)
  BY NowIs DEF Position, PositionIn

(* A command makes a good state of a good one.                             *)
LEMMA StepKeeps ==
  ASSUME NEW t, Good(t), Becomes(t), freed' \subseteq DOMAIN t.table, Alive(t, freed'),
         out' \in Seq(Byte), changes' \in 0 .. MaxChanges, DOMAIN removed' \subseteq Sector
  PROVE  IInv'
  <1>1. Now' = t
    BY BecomesNow DEF Good
  <1>2. table' = t.table
    BY DEF Becomes
  <1>3. QED
    BY <1>1, <1>2 DEF IInv

(* A command that changes the disk counts, and starts from a settled disk. *)
LEMMA CountsKeeps ==
  ASSUME IInv, Counts
  PROVE  Clean(Now) /\ changes' \in 0 .. MaxChanges
  BY SettledIsClean, FilesAssumption DEF IInv, Counts

(* What a command that prints nothing, or forgets what was removed,        *)
(* leaves.                                                                 *)
LEMMA QuietFacts ==
  /\ Silent => out' \in Seq(Byte)
  /\ removed' = <<>> => DOMAIN removed' \subseteq Sector
  /\ Nul \in Byte /\ Letter \subseteq Byte
  /\ \A q \in Seq(Letter) : q \in Seq(Byte)
  /\ <<>> \in Seq(Byte)
  <1>1. Nul \in Byte /\ Letter \subseteq Byte
    BY DEF Byte
  <1>2. \A q \in Seq(Letter) : q \in Seq(Byte)
    BY <1>1
  <1>3. <<>> \in Seq(Byte) /\ DOMAIN <<>> = {}
    OBVIOUS
  <1>4. QED
    BY <1>1, <1>2, <1>3 DEF Silent

(* Where nothing was freed every file's inode is alive.                    *)
LEMMA AllExist ==
  ASSUME IInv, \A f \in Files(Now) : Exists(f)
  PROVE  freed = {}
  <1>1. \A f \in DOMAIN table : f \in Files(Now)
    BY NowIs DEF IInv, Good, Held
  <1>2. QED
    BY <1>1 DEF IInv, Exists

(* The users' names are file names.                                        *)
LEMMA NameIsFileName == Name \subseteq FileName
  BY DEF FileName

(* The command create.                                                     *)
LEMMA CreateKeeps ==
  ASSUME IInv, NEW f \in Name, NEW n \in Sizes, Create(f, n)
  PROVE  IInv'
  <1>1. PICK s : s = Now
    OBVIOUS
  <1>2. PICK t : t = Created(s, f, n)
    OBVIOUS
  <1>3. /\ Becomes(t) /\ Counts /\ freed' = freed /\ Silent /\ removed' = <<>>
    BY <1>1, <1>2 DEF Create, Changes
  <1>4. PICK F : F = freed
    OBVIOUS
  <1>5. Good(s) /\ Clean(s) /\ F \subseteq DOMAIN s.table /\ Alive(s, F)
    BY <1>1, <1>3, <1>4, CountsKeeps, NowIs DEF IInv
  <1>6. f \in FileName /\ n \in 0 .. MaxLength
    BY NameIsFileName, FilesAssumption
  <1>7. Creates(s, f, n, t)
    BY <1>2, <1>5, <1>6, CreatedKeeps
  <1>8. Good(t) /\ t.table = s.table /\ t.inodes = s.inodes
    BY <1>7 DEF Creates
  <1>9. Alive(t, F)
    <2>1. \A g \in DOMAIN s.table : g \in Files(s) /\ InodeOf(t, g) = InodeOf(s, g)
      BY <1>5, <1>7 DEF Creates, Good, Held
    <2>2. QED
      BY <1>5, <1>8, <2>1 DEF Alive
  <1>10. QED
    BY <1>3, <1>4, <1>5, <1>8, <1>9, CountsKeeps, QuietFacts, StepKeeps

(* The command write.                                                      *)
LEMMA WriteKeeps ==
  ASSUME IInv, NEW f \in Name, NEW text \in Text, Write(f, text)
  PROVE  IInv'
  <1>1. PICK s : s = Now
    OBVIOUS
  <1>2. PICK bytes : bytes = text \o Zeros(2)
    OBVIOUS
  <1>3. PICK t : t = WroteTo(s, f, bytes)
    OBVIOUS
  <1>4. /\ Becomes(t) /\ Counts /\ freed' = freed /\ Silent /\ Accessible(f)
        /\ Position(f) + Len(text) + 2 <= MaxLength
        /\ removed' = removed \/ removed' = <<>>
    BY <1>1, <1>2, <1>3 DEF Write, Changes
  <1>5. PICK F : F = freed
    OBVIOUS
  <1>6. Good(s) /\ Clean(s) /\ F \subseteq DOMAIN s.table /\ Alive(s, F)
    BY <1>1, <1>4, <1>5, CountsKeeps, NowIs DEF IInv
  <1>7. PICK p : p = PositionIn(s, f)
    OBVIOUS
  <1>8. f \in Files(s) /\ f \notin F /\ p >= 0 /\ p + Len(text) + 2 <= MaxLength
    BY <1>1, <1>4, <1>5, <1>7, PositionIs DEF Accessible, Exists
  <1>9. p \in Nat
    <2>1. p \in Int
      <3>1. \A g \in DOMAIN s.table : s.table[g].pos \in Int
        BY <1>6, StateFields DEF Good, Handle
      <3>2. QED
        BY <1>7, <3>1 DEF PositionIn
    <2>2. QED
      BY <1>8, <2>1
  <1>10. PICK l \in Nat : l = Len(text)
    BY FilesAssumption
  <1>11. bytes \in Seq(Byte) /\ Len(bytes) = l + 2
    <2>1. PICK y \in Seq(Byte) : y = text /\ Len(y) = l
      BY <1>10, FilesAssumption, QuietFacts
    <2>2. PICK z \in Seq(Byte) : z = Zeros(2) /\ Len(z) = 2
      <3>1. Zeros(2) \in Seq(Byte) /\ Len(Zeros(2)) = 2
        BY QuietFacts DEF Zeros
      <3>2. QED
        BY <3>1, Zenon
    <2>3. y \o z \in Seq(Byte) /\ Len(y \o z) = l + 2
      <3>1. y \o z \in Seq(Byte) /\ Len(y \o z) = Len(y) + Len(z)
        BY ConcatProperties
      <3>2. QED
        BY <2>1, <2>2, <3>1, Zenon
    <2>4. QED
      BY <1>2, <2>1, <2>2, <2>3, Zenon
  <1>12. /\ PositionIn(s, f) \in Nat /\ PositionIn(s, f) + Len(bytes) <= MaxLength
         /\ PositionIn(s, f) + Len(bytes) = 0 => Mem(s, f).len = 0
    <2>1. p + (l + 2) <= MaxLength /\ p + (l + 2) # 0
      BY <1>8, <1>9, <1>10, FilesAssumption
    <2>2. QED
      BY <1>7, <1>9, <1>11, <2>1
  <1>13. Good(t) /\ DOMAIN t.table = DOMAIN s.table \cup {f} /\ Alive(t, F)
    BY <1>3, <1>6, <1>8, <1>11, <1>12, WroteToKeeps
  <1>14. DOMAIN removed' \subseteq Sector
    BY <1>4, QuietFacts DEF IInv
  <1>15. QED
    BY <1>4, <1>5, <1>6, <1>13, <1>14, CountsKeeps, QuietFacts, StepKeeps

(* A command on an open file that leaves the disk alone.                   *)
LEMMA ServedKeeps ==
  ASSUME IInv, NEW f, NEW s, s = Now, NEW t, Serves(s, f, t), f \notin freed, Becomes(t),
         out' \in Seq(Byte), Keeps
  PROVE  IInv'
  <1>1. PICK F : F = freed
    OBVIOUS
  <1>2. F \subseteq DOMAIN s.table /\ Alive(s, F) /\ f \notin F
    BY <1>1, NowIs DEF IInv
  <1>3. Good(t) /\ DOMAIN t.table = DOMAIN s.table \cup {f} /\ Alive(t, F)
    BY <1>2 DEF Serves
  <1>4. freed' = F /\ changes' = changes /\ removed' = removed
    BY <1>1 DEF Keeps
  <1>5. QED
    BY <1>2, <1>3, <1>4, StepKeeps DEF IInv

(* The position of a file that is accessible is a natural number.          *)
LEMMA PositionType ==
  ASSUME IInv, NEW f, Position(f) >= 0
  PROVE  PositionIn(Now, f) \in Nat
  <1>1. PICK s : s = Now
    OBVIOUS
  <1>2. Good(s)
    BY <1>1 DEF IInv
  <1>3. PICK p : p = PositionIn(s, f)
    OBVIOUS
  <1>4. p >= 0
    BY <1>1, <1>3, PositionIs
  <1>5. p \in Int
    <2>1. \A g \in DOMAIN s.table : s.table[g].pos \in Int
      BY <1>2, StateFields DEF Good, Handle
    <2>2. QED
      BY <1>3, <2>1 DEF PositionIn
  <1>6. QED
    BY <1>1, <1>3, <1>4, <1>5

(* A command that reads n bytes of an open file.                           *)
LEMMA ReadKeeps ==
  ASSUME IInv, NEW f, NEW n \in Nat, Accessible(f), Becomes(ReadFrom(Now, f, n)), Keeps,
         Reading(Now, f, n) \in Seq(Byte) => out' \in Seq(Byte)
  PROVE  IInv'
  <1>1. PICK s : s = Now
    OBVIOUS
  <1>2. PICK t : t = ReadFrom(s, f, n)
    OBVIOUS
  <1>3. PICK F : F = freed
    OBVIOUS
  <1>4. Good(s) /\ Alive(s, F)
    BY <1>1, <1>3 DEF IInv
  <1>5. f \in Files(s) /\ f \notin F /\ PositionIn(s, f) \in Nat
    BY <1>1, <1>3, PositionType DEF Accessible, Exists
  <1>6. Serves(s, f, t) /\ Reading(s, f, n) \in Seq(Byte)
    BY <1>2, <1>4, <1>5, ReadFromServes
  <1>7. Becomes(t) /\ out' \in Seq(Byte) /\ f \notin freed
    BY <1>1, <1>2, <1>3, <1>5, <1>6
  <1>8. QED
    BY <1>1, <1>6, <1>7, ServedKeeps

(* The command read.                                                       *)
LEMMA ReadStepKeeps ==
  ASSUME IInv, NEW f, NEW n \in Sizes, Read(f, n)
  PROVE  IInv'
  <1>1. n \in Nat
    BY FilesAssumption
  <1>2. QED
    BY <1>1, ReadKeeps DEF Read

(* The command copy_out.                                                   *)
LEMMA CopyOutKeeps ==
  ASSUME IInv, NEW f, CopyOut(f)
  PROVE  IInv'
  <1>1. PICK n : n = SizeOf(Now, f)
    OBVIOUS
  <1>2. Good(Now) /\ f \in Files(Now)
    BY DEF IInv, CopyOut, Accessible, Exists
  <1>3. n \in Nat
    <2>1. PICK s : s = Now
      OBVIOUS
    <2>2. QED
      BY <1>1, <1>2, <2>1, SizeOfType
  <1>4. PICK b : b = Reading(Now, f, n)
    OBVIOUS
  <1>5. Accessible(f) /\ Becomes(ReadFrom(Now, f, n)) /\ Keeps /\ out' = String(b)
    BY <1>1, <1>4 DEF CopyOut
  <1>6. b \in Seq(Byte) => out' \in Seq(Byte)
    BY <1>5, StringType
  <1>7. QED
    BY <1>3, <1>4, <1>5, <1>6, ReadKeeps

(* The command seek.                                                       *)
LEMMA SeekKeeps ==
  ASSUME IInv, NEW f, NEW p \in Offsets, Seek(f, p)
  PROVE  IInv'
  <1>1. PICK s : s = Now
    OBVIOUS
  <1>2. PICK t : t = Moved(Opened(s, f), f, p)
    OBVIOUS
  <1>3. Good(s) /\ f \in Files(s) /\ f \notin freed /\ p \in Int
    BY <1>1, FilesAssumption DEF IInv, Seek, Exists
  <1>4. Serves(s, f, t)
    BY <1>2, <1>3, SeekServes
  <1>5. Becomes(t) /\ Silent /\ Keeps
    BY <1>1, <1>2 DEF Seek
  <1>6. QED
    BY <1>1, <1>3, <1>4, <1>5, QuietFacts, ServedKeeps

(* The command size.                                                       *)
LEMMA SizeKeeps ==
  ASSUME IInv, NEW f, Size(f)
  PROVE  IInv'
  <1>1. PICK s : s = Now
    OBVIOUS
  <1>2. PICK t : t = Opened(s, f)
    OBVIOUS
  <1>3. Good(s) /\ f \in Files(s) /\ f \notin freed
    BY <1>1 DEF IInv, Size, Exists
  <1>4. Serves(s, f, t)
    BY <1>2, <1>3, OpenedServes
  <1>5. Becomes(t) /\ Silent /\ Keeps
    BY <1>1, <1>2 DEF Size
  <1>6. QED
    BY <1>1, <1>3, <1>4, <1>5, QuietFacts, ServedKeeps

(* The command cat.                                                        *)
LEMMA CatStepKeeps ==
  ASSUME IInv, NEW f, Cat(f)
  PROVE  IInv'
  <1>1. PICK s : s = Now
    OBVIOUS
  <1>2. PICK m : m = Moved(Opened(s, f), f, 0)
    OBVIOUS
  <1>3. PICK n : n = SizeOf(s, f)
    OBVIOUS
  <1>4. PICK r : r = ReadFrom(m, f, n)
    OBVIOUS
  <1>5. PICK t : t = IF f \in DOMAIN s.table THEN Moved(r, f, s.table[f].pos) ELSE Closed(r, f)
    OBVIOUS
  <1>6. PICK F : F = freed
    OBVIOUS
  <1>7. s.table = table
    BY <1>1, NowIs
  <1>8. Exists(f) /\ Becomes(t) /\ out' = Reading(m, f, n) /\ Keeps
    BY <1>1, <1>2, <1>3, <1>4, <1>5, <1>7, Zenon DEF Cat
  <1>9. Good(s) /\ Alive(s, F) /\ f \in Files(s) /\ f \notin F /\ F \subseteq DOMAIN s.table
    BY <1>1, <1>6, <1>7, <1>8 DEF IInv, Exists
  <1>10. /\ Good(t) /\ DOMAIN t.table = DOMAIN s.table /\ Alive(t, F)
         /\ Reading(m, f, n) \in Seq(Byte)
    BY <1>2, <1>3, <1>4, <1>5, <1>9, CatKeeps
  <1>11. freed' = F /\ changes' = changes /\ removed' = removed
    BY <1>6, <1>8 DEF Keeps
  <1>12. QED
    BY <1>8, <1>9, <1>10, <1>11, StepKeeps DEF IInv

(* cat of a path, which frees the inode of an open file.                   *)
LEMMA CatByPathKeeps ==
  ASSUME IInv, NEW f, CatByPath(f)
  PROVE  IInv'
  <1>1. PICK s : s = Now
    OBVIOUS
  <1>2. PICK F : F = freed
    OBVIOUS
  <1>3. /\ s.used = used /\ s.disk = disk /\ s.dir = dir /\ s.inodes = inodes /\ s.table = table
    BY <1>1, NowIs
  <1>4. Good(s) /\ Alive(s, F) /\ F \subseteq DOMAIN s.table /\ s \in State
    BY <1>1, <1>2, <1>3 DEF IInv, Good
  <1>5. f \in DOMAIN s.table /\ f \in Files(s)
    BY <1>1, <1>3 DEF CatByPath, Exists
  <1>6. PICK i : i = s.table[f].inode
    OBVIOUS
  <1>7. PICK m : m = [s.inodes EXCEPT ![i] = NotOpen]
    OBVIOUS
  <1>8. s.inodes \in [Sector -> Record \cup {NotOpen}]
    BY <1>4, StateFields
  <1>9. /\ m \in [Sector -> Record \cup {NotOpen}]
        /\ \A j \in Sector : m[j] = s.inodes[j] \/ (m[j] = NotOpen /\ j = i)
    BY <1>7, <1>8
  <1>10. PICK t : t = PutInodes(s, m)
    OBVIOUS
  <1>11. /\ t \in State /\ t.inodes = m /\ t.used = s.used
         /\ t.disk = s.disk /\ t.dir = s.dir /\ t.table = s.table
    BY <1>4, <1>9, <1>10, WithInodes
  <1>12. Drops(s, {f}, t)
    BY <1>6, <1>9, <1>11 DEF Drops, Frame
  <1>13. Good(t) /\ Alive(t, F \cup {f})
    <2>1. {f} \in SUBSET (DOMAIN s.table)
      BY <1>5
    <2>2. QED
      BY <1>4, <1>12, <2>1, DropsKeeps
  <1>14. Becomes(t)
    BY <1>3, <1>6, <1>7, <1>11 DEF CatByPath, Becomes
  <1>15. freed' = F \cup {f} /\ out' = Contents(s, f) /\ changes' = changes /\ removed' = removed
    BY <1>1, <1>2 DEF CatByPath
  <1>16. Contents(s, f) \in Seq(Byte)
    BY <1>4, <1>5, ContentsType
  <1>17. QED
    BY <1>4, <1>5, <1>11, <1>13, <1>14, <1>15, <1>16, StepKeeps DEF IInv

(* The command rm.                                                         *)
LEMMA RmKeeps ==
  ASSUME IInv, NEW f, Rm(f)
  PROVE  IInv'
  <1>1. PICK s : s = Now
    OBVIOUS
  <1>2. PICK t : t = Gone(s, f)
    OBVIOUS
  <1>3. PICK F : F = freed
    OBVIOUS
  <1>4. /\ Becomes(t) /\ Counts /\ freed' = F /\ Silent /\ Exists(f)
        /\ removed' = With(removed, InodeOf(s, f), Contents(s, f))
    BY <1>1, <1>2, <1>3 DEF Rm, Changes
  <1>5. Good(s) /\ Clean(s) /\ F \subseteq DOMAIN s.table /\ Alive(s, F)
    BY <1>1, <1>3, <1>4, CountsKeeps, NowIs DEF IInv
  <1>6. f \in Files(s) /\ f \notin F
    BY <1>1, <1>3, <1>4 DEF Exists
  <1>7. Good(t) /\ DOMAIN t.table = DOMAIN s.table \ {f} /\ Alive(t, F)
    BY <1>2, <1>5, <1>6, GoneKeeps
  <1>8. DOMAIN removed' \subseteq Sector
    <2>1. InodeOf(s, f) \in Sector
      BY <1>5, <1>6, MemFacts
    <2>2. DOMAIN removed' = DOMAIN removed \cup {InodeOf(s, f)}
      BY <1>4 DEF With
    <2>3. QED
      BY <2>1, <2>2 DEF IInv
  <1>9. F \subseteq DOMAIN t.table
    BY <1>5, <1>6, <1>7
  <1>10. QED
    BY <1>4, <1>7, <1>8, <1>9, CountsKeeps, QuietFacts, StepKeeps

(* What is taken of the host's file are bytes, and at least one.           *)
LEMMA FitsType ==
  ASSUME NEW f \in Name, NEW free \in Nat, free > 0, NEW bytes, bytes = Host[f] \o <<Nul>>,
         NEW fits, fits = SubSeq(bytes, 1, Min({free, Len(bytes)}))
  PROVE  fits \in Seq(Byte) /\ Len(fits) > 0
  <1>1. PICK host \in Seq(Byte) : host = Host[f]
    BY FilesAssumption, QuietFacts
  <1>2. PICK b \in Seq(Byte) : b = <<Nul>> /\ Len(b) = 1
    <2>1. <<Nul>> \in Seq(Byte) /\ Len(<<Nul>>) = 1
      BY QuietFacts
    <2>2. QED
      BY <2>1, Zenon
  <1>3. host \o b \in Seq(Byte) /\ Len(host \o b) = Len(host) + Len(b)
    BY ConcatProperties
  <1>4. PICK all \in Seq(Byte) : all = bytes /\ Len(all) = Len(host) + 1
    BY <1>1, <1>2, <1>3
  <1>5. PICK l \in Nat : l = Len(all) /\ l > 0
    <2>1. PICK h \in Nat : h = Len(host)
      OBVIOUS
    <2>2. QED
      BY <1>4, <2>1
  <1>6. PICK n \in Nat : n = Min({free, Len(bytes)}) /\ n > 0 /\ n <= l
    <2>1. Min({free, l}) = IF free <= l THEN free ELSE l
      BY MinOfTwo
    <2>2. PICK n \in Nat : n = (IF free <= l THEN free ELSE l) /\ n > 0 /\ n <= l
      <3>1. CASE free <= l
        BY <3>1
      <3>2. CASE ~(free <= l)
        <4>1. l > 0 /\ l <= l
          BY <1>5
        <4>2. QED
          BY <3>2, <4>1
      <3>3. QED
        BY <3>1, <3>2, Zenon
    <2>3. Len(bytes) = l
      BY <1>4, <1>5
    <2>4. n = Min({free, Len(bytes)})
      BY <2>1, <2>2, <2>3, Zenon
    <2>5. QED
      BY <2>2, <2>4
  <1>7. fits = SubSeq(all, 1, n)
    BY <1>4, <1>6
  <1>8. SubSeq(all, 1, n) \in Seq(Byte) /\ Len(SubSeq(all, 1, n)) = n
    <2>1. \A j \in 1 .. n : all[j] \in Byte
      BY <1>5, <1>6
    <2>2. PICK z : z = SubSeq(all, 1, n)
      OBVIOUS
    <2>3. z \in Seq(Byte) /\ Len(z) = IF 1 <= n THEN n - 1 + 1 ELSE 0
      BY <2>1, <2>2, SubSeqProperties
    <2>4. (IF 1 <= n THEN n - 1 + 1 ELSE 0) = n
      BY <1>6
    <2>5. QED
      BY <2>2, <2>3, <2>4, Zenon
  <1>9. QED
    BY <1>6, <1>7, <1>8

(* The command copy_in.                                                    *)
LEMMA CopyInStepKeeps ==
  ASSUME IInv, NEW f \in Name, CopyIn(f)
  PROVE  IInv'
  <1>1. PICK s : s = Now
    OBVIOUS
  <1>2. PICK free : free = Cardinality(Free(s))
    OBVIOUS
  <1>3. PICK bytes : bytes = Host[f] \o <<Nul>>
    OBVIOUS
  <1>4. PICK fits : fits = SubSeq(bytes, 1, Min({free, Len(bytes)}))
    OBVIOUS
  <1>5. PICK made : made = Created(s, f, Len(fits))
    OBVIOUS
  <1>6. PICK t : t = IF f \in Files(made) THEN WroteTo(made, f, fits) ELSE made
    OBVIOUS
  <1>7. PICK F : F = freed
    OBVIOUS
  <1>8. /\ Counts /\ freed' = F /\ free > 0 /\ Position(f) >= 0 /\ f \notin F
        /\ Position(f) + Len(fits) <= MaxLength
        /\ Becomes(t) /\ Silent /\ removed' = <<>>
    BY <1>1, <1>2, <1>3, <1>4, <1>5, <1>6, <1>7, Zenon DEF CopyIn, Changes
  <1>9. Good(s) /\ Clean(s) /\ F \subseteq DOMAIN s.table /\ Alive(s, F)
    BY <1>1, <1>7, <1>8, CountsKeeps, NowIs DEF IInv
  <1>10. PositionIn(s, f) \in Nat /\ PositionIn(s, f) + Len(fits) <= MaxLength
    BY <1>1, <1>8, PositionIs, PositionType
  <1>11. free \in Nat
    <2>1. Free(s) \in SUBSET Sector
      BY DEF Free
    <2>2. QED
      BY <1>2, <2>1, SectorsFinite
  <1>12. fits \in Seq(Byte) /\ Len(fits) > 0
    BY <1>3, <1>4, <1>8, <1>11, FitsType
  <1>13. f \in FileName
    BY NameIsFileName
  <1>14. Good(t) /\ Alive(t, F) /\ DOMAIN s.table \subseteq DOMAIN t.table
    BY <1>5, <1>6, <1>8, <1>9, <1>10, <1>12, <1>13, CopyInKeeps
  <1>15. QED
    BY <1>8, <1>9, <1>14, CountsKeeps, QuietFacts, StepKeeps

(* The command find_file.                                                  *)
LEMMA FindFileKeeps ==
  ASSUME IInv, FindFile
  PROVE  IInv'
  <1>1. PICK s : s = Now
    OBVIOUS
  <1>2. PICK t : t = ReadAll(s)
    OBVIOUS
  <1>3. AllAccessible /\ Becomes(t) /\ Silent /\ Keeps
    BY <1>1, <1>2 DEF FindFile
  <1>4. freed = {}
    BY <1>3, AllExist DEF AllAccessible, Accessible
  <1>5. Good(s) /\ Alive(s, {})
    BY <1>1, <1>4 DEF IInv
  <1>6. \A g \in Files(s) : PositionIn(s, g) \in Nat
    BY <1>1, <1>3, PositionType DEF AllAccessible, Accessible
  <1>7. ReadSome(s, Listing(s), Len(Listing(s)), t)
    BY <1>2, <1>5, <1>6, ReadAllKeeps
  <1>8. Good(t) /\ Alive(t, {})
    BY <1>7 DEF ReadSome
  <1>9. freed' = {} /\ changes' = changes /\ removed' = removed
    BY <1>3, <1>4 DEF Keeps
  <1>10. QED
    BY <1>3, <1>8, <1>9, QuietFacts, StepKeeps DEF IInv

(* fragmentation_degree and recover 2, which leave every file open.        *)
LEMMA OpenAllStepKeeps ==
  ASSUME IInv, OpenAll
  PROVE  IInv'
  <1>1. PICK s : s = Now
    OBVIOUS
  <1>2. PICK t : t = OpenedAll(s)
    OBVIOUS
  <1>3. PICK F : F = freed
    OBVIOUS
  <1>4. Becomes(t) /\ Silent /\ Keeps
    BY <1>1, <1>2 DEF OpenAll, OpenedAll
  <1>5. Good(s) /\ Alive(s, F) /\ F \subseteq DOMAIN s.table
    BY <1>1, <1>3, NowIs DEF IInv
  <1>6. OpenSome(s, F, Listing(s), Len(Listing(s)), t)
    BY <1>2, <1>5, OpenAllKeeps
  <1>7. Good(t) /\ Alive(t, F) /\ F \subseteq DOMAIN t.table
    BY <1>5, <1>6 DEF OpenSome
  <1>8. freed' = F /\ changes' = changes /\ removed' = removed
    BY <1>3, <1>4 DEF Keeps
  <1>9. QED
    BY <1>4, <1>7, <1>8, QuietFacts, StepKeeps DEF IInv

(* Where no sector is lost, those in use are the system's and the files'.  *)
LEMMA NothingLostIs ==
  ASSUME NEW s, s = Now, Good(s), NothingLost, NEW j \in s.used
  PROVE  j \in System \/ \E g \in Files(s) : j \in Region(s, g)
  <1>1. s.used = System \cup OwnedSectors(s)
    BY NowIs DEF NothingLost
  <1>2. ASSUME NEW g \in Files(s)
        PROVE  {InodeOf(s, g)} \cup
                 {InMemory(s, InodeOf(s, g)).blocks[k] : k \in 1 .. SectorsFor(SizeOf(s, g))}
                 = Region(s, g)
    <2>1. PICK x : x = Mem(s, g)
      OBVIOUS
    <2>2. InMemory(s, InodeOf(s, g)) = x /\ SizeOf(s, g) = x.len
      BY <2>1 DEF Mem, SizeOf
    <2>3. QED
      BY <2>1, <2>2, RegionIs
  <1>3. OwnedSectors(s) = UNION {Region(s, g) : g \in Files(s)}
    BY <1>2 DEF OwnedSectors
  <1>4. QED
    BY <1>1, <1>3

\* defragment has made the files of Now again in `made`, and its last close hits `hit`.
Makes(made, hit) ==
  /\ NothingLost => Packed(made)
  /\ Good(made) /\ Alive(made, {}) /\ Restores(Now, made)
  /\ Becomes(Dropped(made, hit)) /\ freed' = hit

(* What defragment makes, before its last close.                           *)
LEMMA DefragmentMakes ==
  ASSUME IInv, Defragment
  PROVE  \E made : \E hit \in SUBSET (DOMAIN made.table) : Makes(made, hit)
  <1>1. PICK s : s = Now
    OBVIOUS
  <1>2. PICK start \in Heap, heap \in [Files(Now) -> Heap] :
          LET made == Recreated(FoldLeft(Gone, ReadAll(Now), Listing(Now)), Gathered(start, heap), heap)
          IN \E hit \in HitByClose(made) : Becomes(Dropped(made, hit)) /\ freed' = hit
    BY DEF Defragment
  <1>3. PICK read : read = ReadAll(s)
    OBVIOUS
  <1>4. PICK names : names = Listing(s)
    OBVIOUS
  <1>5. PICK bare : bare = FoldLeft(Gone, read, names)
    OBVIOUS
  <1>6. PICK text : text = Gathered(start, heap)
    OBVIOUS
  <1>7. PICK made : made = Recreated(bare, text, heap)
    OBVIOUS
  <1>8. PICK hit \in HitByClose(made) : Becomes(Dropped(made, hit)) /\ freed' = hit
    BY <1>1, <1>2, <1>3, <1>4, <1>5, <1>6, <1>7
  <1>10. Counts /\ AllAccessible
    BY DEF Defragment
  <1>11. freed = {}
    BY <1>10, AllExist DEF AllAccessible, Accessible
  <1>12. Good(s) /\ Clean(s) /\ Alive(s, {})
    BY <1>1, <1>10, <1>11, CountsKeeps DEF IInv
  <1>13. \A g \in Files(s) : PositionIn(s, g) \in Nat
    BY <1>1, <1>10, PositionType DEF AllAccessible, Accessible
  <1>14. start \in Seq(Byte) /\ \A g \in Files(s) : heap[g] \in Seq(Byte)
    BY <1>1, FilesAssumption, QuietFacts
  <1>15. Readable(s, heap)
    BY <1>12, <1>13, <1>14 DEF Readable
  <1>16. text \in Seq(Byte)
    BY <1>1, <1>6, <1>14, <1>15, GatheredType
  <1>17. Good(read) /\ Clean(read) /\ Alive(read, {}) /\ Frame(s, read)
    <2>1. ReadSome(s, names, Len(names), read)
      BY <1>3, <1>4, <1>12, <1>13, ReadAllKeeps
    <2>2. QED
      BY <1>12, <2>1 DEF ReadSome
  <1>18. names = Listing(read)
    BY <1>4, <1>17 DEF Frame, Listing
  <1>19. /\ Good(bare) /\ Clean(bare) /\ Alive(bare, {}) /\ Files(bare) = {}
         /\ Cardinality(Spaces(read, names, 0)) <= Cardinality(Free(bare))
         /\ bare.used \subseteq read.used
         /\ \A g \in Files(read) : Region(read, g) \cap bare.used = {}
    BY <1>5, <1>17, <1>18, GoneAllKeeps
  <1>25. /\ Spaces(s, names, 0) = Spaces(read, names, 0)
         /\ \A g : Region(read, g) = Region(s, g)
    <2>1. read.disk = s.disk /\ \A g : InodeOf(read, g) = InodeOf(s, g)
      BY <1>17, FrameFiles DEF Frame
    <2>2. \A g : Region(read, g) = Region(s, g)
      BY <2>1 DEF Region
    <2>3. QED
      BY <2>2 DEF Spaces
  <1>26. ASSUME NothingLost PROVE Packed(bare)
    <2>1. read.used = s.used /\ Files(read) = Files(s)
      BY <1>17, FrameFiles DEF Frame
    <2>2. ASSUME NEW j \in bare.used PROVE j \in System
      <3>1. j \in s.used
        BY <1>19, <2>1
      <3>2. \A g \in Files(s) : j \notin Region(s, g)
        BY <1>19, <1>25, <2>1
      <3>3. QED
        BY <1>1, <1>12, <1>26, <3>1, <3>2, NothingLostIs
    <2>3. System \subseteq bare.used
      BY <1>19 DEF Good
    <2>4. System = 0 .. 2 - 1
      BY DEF System, FreeMapSector, RootDirSector
    <2>5. bare.used = 0 .. 2 - 1
      BY <2>2, <2>3, <2>4
    <2>6. QED
      BY <1>19, <2>5 DEF Packed
  <1>20. PICK e : e = [now |-> s, text |-> text, heap |-> heap]
    OBVIOUS
  <1>21. e.now = s /\ e.text = text /\ e.heap = heap
    BY <1>20
  <1>22. made = Recreates(e, bare)
    <2>1. e.now = Now
      BY <1>1, <1>21
    <2>2. QED
      BY <1>7, <1>21, <2>1, RecreatedIs
  <1>23. /\ Good(made) /\ Alive(made, {}) /\ Restores(s, made)
         /\ Packed(bare) => Packed(made)
    <2>1. Cardinality(Spaces(e.now, Listing(e.now), 0)) <= Cardinality(Free(bare))
      BY <1>4, <1>19, <1>21, <1>25
    <2>2. /\ Good(made) /\ Alive(made, {}) /\ Restores(e.now, made)
          /\ Packed(bare) => Packed(made)
      BY <1>12, <1>14, <1>16, <1>19, <1>21, <1>22, <2>1, RecreatesKeeps
    <2>3. QED
      BY <1>21, <2>2
  <1>24. hit \in SUBSET (DOMAIN made.table)
    BY <1>8 DEF HitByClose
  <1>27. Makes(made, hit)
    BY <1>1, <1>8, <1>23, <1>26 DEF Makes
  <1>28. QED
    BY <1>24, <1>27

(* What it leaves after the close that hits the inodes of `hit`.           *)
LEMMA MakesKeeps ==
  ASSUME NEW made, NEW hit \in SUBSET (DOMAIN made.table), Makes(made, hit),
         NEW t, t = Dropped(made, hit)
  PROVE  Drops(made, hit, t) /\ Good(t) /\ Alive(t, hit) /\ t.table = made.table
  <1>1. Good(made) /\ Alive(made, {})
    BY DEF Makes
  <1>2. Drops(made, hit, t)
    BY <1>1, DroppedDrops DEF Good
  <1>3. Good(t) /\ Alive(t, {} \cup hit)
    BY <1>1, <1>2, DropsKeeps
  <1>4. {} \cup hit = hit
    OBVIOUS
  <1>5. QED
    BY <1>2, <1>3, <1>4 DEF Drops

(* The command defragment.                                                 *)
LEMMA DefragmentKeeps ==
  ASSUME IInv, Defragment
  PROVE  IInv'
  <1>1. PICK made : \E hit \in SUBSET (DOMAIN made.table) : Makes(made, hit)
    BY DefragmentMakes
  <1>2. PICK hit \in SUBSET (DOMAIN made.table) : Makes(made, hit)
    BY <1>1
  <1>3. PICK t : t = Dropped(made, hit)
    OBVIOUS
  <1>4. Good(t) /\ Alive(t, hit) /\ t.table = made.table
    BY <1>2, <1>3, MakesKeeps
  <1>5. Becomes(t) /\ freed' = hit
    BY <1>2, <1>3 DEF Makes
  <1>6. Counts /\ Silent /\ removed' = <<>>
    BY DEF Defragment
  <1>7. QED
    BY <1>2, <1>4, <1>5, <1>6, CountsKeeps, QuietFacts, StepKeeps

(* The command recover 0.                                                  *)
LEMMA Recover0Keeps ==
  ASSUME IInv, Recover0
  PROVE  IInv'
  <1>1. PICK s : s = Now
    OBVIOUS
  <1>2. PICK t : t = FoldLeft(Relinked, s, Ascending(Free(s)))
    OBVIOUS
  <1>3. PICK F : F = freed
    OBVIOUS
  <1>4. Becomes(t) /\ Silent /\ Keeps
    BY <1>1, <1>2 DEF Recover0
  <1>5. Good(s) /\ Alive(s, F) /\ F \subseteq DOMAIN s.table
    BY <1>1, <1>3, NowIs DEF IInv
  <1>6. Relinking(s, F, t)
    BY <1>2, <1>5, RecoverKeeps
  <1>7. Good(t) /\ Alive(t, F) /\ F \subseteq DOMAIN t.table
    BY <1>5, <1>6 DEF Relinking
  <1>8. freed' = F /\ changes' = changes /\ removed' = removed
    BY <1>3, <1>4 DEF Keeps
  <1>9. QED
    BY <1>4, <1>7, <1>8, QuietFacts, StepKeeps DEF IInv

(* A new shell on the same disk.                                           *)
LEMMA RestartStepKeeps ==
  ASSUME IInv, Restart
  PROVE  IInv'
  <1>1. PICK s : s = Now
    OBVIOUS
  <1>2. /\ s.used = used /\ s.disk = disk /\ s.dir = dir
    BY <1>1, NowIs
  <1>3. Good(s) /\ s \in State
    BY <1>1 DEF IInv, Good
  <1>4. PICK m : m = [i \in Sector |-> NotOpen]
    OBVIOUS
  <1>5. m \in [Sector -> Record \cup {NotOpen}]
    BY <1>4
  <1>6. PICK t : t = [used |-> s.used, disk |-> s.disk, dir |-> s.dir, inodes |-> m, table |-> <<>>]
    OBVIOUS
  <1>7. /\ t.used = s.used /\ t.disk = s.disk /\ t.dir = s.dir /\ t.inodes = m /\ t.table = <<>>
    BY <1>6
  <1>8. t \in State
    <2>1. <<>> \in Handles
      <3>1. <<>> \in [{} -> Handle] /\ {} \in SUBSET FileName
        OBVIOUS
      <3>2. QED
        BY <3>1 DEF Handles
    <2>2. QED
      BY <1>3, <1>5, <1>6, <2>1, StateFields DEF State
  <1>9. Good(t) /\ \A F : Alive(t, F)
    BY <1>3, <1>4, <1>7, <1>8, RestartKeeps
  <1>10. Becomes(t)
    BY <1>2, <1>4, <1>7 DEF Restart, Becomes
  <1>11. freed' = {} /\ Silent /\ changes' = changes /\ removed' = removed
    BY DEF Restart
  <1>12. QED
    BY <1>9, <1>10, <1>11, QuietFacts, StepKeeps DEF IInv

-----------------------------------------------------------------------------
(* The invariant holds at first, and every step keeps it.                  *)
LEMMA InitKeeps == Init => IInv
  <1> SUFFICES ASSUME Init PROVE IInv
    OBVIOUS
  <1>1. PICK s : s = Now
    OBVIOUS
  <1>2. PICK r : r = Inode(0, <<>>)
    OBVIOUS
  <1>3. r \in InodeRec /\ r.len = 0
    <2>1. <<>> \in Seq(Sector) /\ 0 \in 0 .. MaxLength
      BY FilesAssumption
    <2>2. SectorsFor(0) <= Len(<<>>)
      <3>1. PICK P \in Nat \ {0} : P = SectorSize
        BY FilesAssumption
      <3>2. (0 + P - 1) \div P = 0
        <4>1. 0 + P - 1 = 0 * P + P - 1 /\ 0 \in Nat /\ P \in 1 .. P
          OBVIOUS
        <4>2. (0 * P + P - 1) \div P = 0
          BY <4>1, Quotient
        <4>3. QED
          BY <4>1, <4>2
      <3>3. QED
        BY <3>1, <3>2 DEF SectorsFor
    <2>3. QED
      BY <1>2, <2>1, <2>2, InodeIs
  <1>4. /\ s.used = System /\ s.dir = <<>> /\ s.table = <<>>
        /\ s.disk = [i \in Sector |-> IF i \in System THEN r ELSE Blank]
        /\ s.inodes = [i \in Sector |-> NotOpen]
    BY <1>1, <1>2, NowIs DEF Init, Blank
  <1>5. System \subseteq Sector
    BY FilesAssumption DEF System, FreeMapSector, RootDirSector, Sector
  <1>6. s \in State
    <2>1. s.disk \in [Sector -> Record]
      BY <1>3, <1>4, BlankFacts DEF Record
    <2>2. s.inodes \in [Sector -> Record \cup {NotOpen}]
      BY <1>4
    <2>3. s.table \in Handles
      <3>1. <<>> \in [{} -> Handle] /\ {} \in SUBSET FileName
        OBVIOUS
      <3>2. QED
        BY <1>4, <3>1 DEF Handles
    <2>4. s.dir \in Seq({NoEntry} \cup DirEntry)
      BY <1>4
    <2>5. s = [used |-> s.used, disk |-> s.disk, dir |-> s.dir, inodes |-> s.inodes,
               table |-> s.table]
      BY <1>1, NowIs DEF Now
    <2>6. s.used \in SUBSET Sector
      BY <1>4, <1>5
    <2>7. QED
      BY <2>1, <2>2, <2>3, <2>4, <2>5, <2>6 DEF State
  <1>7. Slots(s.dir) = {} /\ Files(s) = {}
    BY <1>4, FilesAre DEF Slots
  <1>8. DOMAIN s.table = {} /\ \A i \in Sector : s.inodes[i] = NotOpen
    BY <1>4
  <1>9. Named(s) /\ Kinds(s) /\ Strays(s) /\ Apart(s) /\ Zeroed(s)
    BY <1>7 DEF Named, Distinct, Kinds, Strays, Apart, Zeroed, Kept
  <1>10. Held(s) /\ Spare(s) /\ Owners(s)
    BY <1>4, <1>5, <1>8 DEF Held, Spare, Owners
  <1>11. Good(s)
    BY <1>4, <1>6, <1>9, <1>10 DEF Good
  <1>12. freed = {} /\ Alive(s, {})
    BY <1>8 DEF Init, Alive
  <1>13. out \in Seq(Byte) /\ changes \in 0 .. MaxChanges /\ DOMAIN removed \subseteq Sector
    BY FilesAssumption DEF Init
  <1>14. QED
    BY <1>1, <1>11, <1>12, <1>13 DEF IInv

(* Every command keeps the invariant.                                      *)
LEMMA NextKeeps == IInv /\ [Next]_vars => IInv'
  <1> SUFFICES ASSUME IInv, [Next]_vars PROVE IInv'
    OBVIOUS
  <1>1. CASE UNCHANGED vars
    BY <1>1 DEF vars, IInv, Now
  <1>2. ASSUME NEW f \in Name, NEW n \in Sizes, Create(f, n) PROVE IInv'
    BY <1>2, CreateKeeps
  <1>3. ASSUME NEW f \in Name, Rm(f) \/ CopyIn(f) PROVE IInv'
    BY <1>3, RmKeeps, CopyInStepKeeps
  <1>4. ASSUME NEW f \in Name, NEW text \in Text, Write(f, text) PROVE IInv'
    BY <1>4, WriteKeeps
  <1>5. ASSUME NEW f \in FileName, Size(f) \/ Cat(f) \/ CatByPath(f) \/ CopyOut(f) PROVE IInv'
    BY <1>5, SizeKeeps, CatStepKeeps, CatByPathKeeps, CopyOutKeeps
  <1>6. ASSUME NEW f \in FileName, NEW n \in Sizes, Read(f, n) PROVE IInv'
    BY <1>6, ReadStepKeeps
  <1>7. ASSUME NEW f \in FileName, NEW p \in Offsets, Seek(f, p) PROVE IInv'
    BY <1>7, SeekKeeps
  <1>8. CASE FindFile
    BY <1>8, FindFileKeeps
  <1>9. CASE OpenAll
    BY <1>9, OpenAllStepKeeps
  <1>10. CASE Defragment
    BY <1>10, DefragmentKeeps
  <1>11. CASE Recover0
    BY <1>11, Recover0Keeps
  <1>12. CASE Restart
    BY <1>12, RestartStepKeeps
  <1>13. QED
    BY <1>1, <1>2, <1>3, <1>4, <1>5, <1>6, <1>7, <1>8, <1>9, <1>10, <1>11, <1>12 DEF Next

(* Names, sectors and handles stay in order: no sector belongs to two      *)
(* files, every handle leads where its name leads, and what lies behind    *)
(* the end of a file is zero.                                              *)
THEOREM Ordered == Spec => []IInv
  <1>1. QED
    BY InitKeeps, NextKeeps, PTL DEF Spec

(* Every variable has its type, whatever the commands, and the two system  *)
(* sectors stay allocated.                                                 *)
THEOREM TypeCorrect == Spec => []TypeOK
  <1>1. IInv => TypeOK
    <2> SUFFICES ASSUME IInv PROVE TypeOK
      OBVIOUS
    <2>1. PICK s : s = Now
      OBVIOUS
    <2>2. /\ s.used = used /\ s.disk = disk /\ s.dir = dir /\ s.inodes = inodes /\ s.table = table
      BY <2>1, NowIs
    <2>3. Good(s) /\ s \in State /\ System \subseteq s.used
      BY <2>1 DEF IInv, Good
    <2>4. \A x \in Record : x \in InodeRecord \cup DataRecord
      BY DEF Record, InodeRec
    <2>5. /\ used \in SUBSET Sector /\ System \subseteq used
          /\ \A i \in Sector : disk[i] \in Record
          /\ \A i \in Sector : inodes[i] \in Record \cup {NotOpen}
      BY <2>2, <2>3, StateFields
    <2>6. ASSUME NEW k \in DOMAIN dir
          PROVE  dir[k] = NoEntry \/ (dir[k].name \in FileName /\ dir[k].inode \in Sector)
      <3>1. dir[k] \in {NoEntry} \cup DirEntry
        BY <2>2, <2>3, StateFields
      <3>2. QED
        BY <3>1 DEF DirEntry
    <2>7. ASSUME NEW f \in DOMAIN table
          PROVE  f \in FileName /\ table[f].inode \in Sector /\ table[f].pos \in Int
      BY <2>2, <2>3, StateFields DEF Handle
    <2>8. QED
      BY <2>4, <2>5, <2>6, <2>7 DEF TypeOK, IInv
  <1>2. QED
    BY <1>1, Ordered, PTL

(* An open file leads to the inode its name leads to, no command but those *)
(* recorded in freed takes that inode from under the handle, and until     *)
(* recover(0) no inode is left in memory without a handle.                 *)
THEOREM HandlesStayAlive == Spec => []HandlesLive
  <1>1. IInv => HandlesLive
    <2> SUFFICES ASSUME IInv PROVE HandlesLive
      OBVIOUS
    <2>1. PICK s : s = Now
      OBVIOUS
    <2>2. /\ s.used = used /\ s.inodes = inodes /\ s.table = table
      BY <2>1, NowIs
    <2>3. PICK F : F = freed
      OBVIOUS
    <2>4. Good(s) /\ Alive(s, F)
      BY <2>1, <2>3 DEF IInv
    <2>5. ASSUME NEW f \in DOMAIN s.table
          PROVE  /\ f \in Files(s) /\ s.table[f].inode = InodeOf(s, f)
                 /\ f \notin F => s.inodes[s.table[f].inode].kind = "inode"
      <3>1. f \in Files(s) /\ s.table[f].inode = InodeOf(s, f)
        BY <2>4 DEF Good, Held
      <3>2. ASSUME f \notin F PROVE s.inodes[InodeOf(s, f)].kind = "inode"
        <4>1. s.inodes[InodeOf(s, f)] # NotOpen
          BY <2>4, <3>2 DEF Alive
        <4>2. s.inodes[InodeOf(s, f)] \in InodeRec
          BY <2>4, <3>1, <4>1 DEF Good, Kinds
        <4>3. QED
          BY <4>2, NotOpenIsNone
      <3>3. QED
        BY <3>1, <3>2
    <2>6. ASSUME Settled, NEW i \in Sector, s.inodes[i] # NotOpen
          PROVE  \E f \in DOMAIN s.table : s.table[f].inode = i
      <3>1. i \in s.used
        BY <2>2, <2>6 DEF Settled
      <3>2. QED
        BY <2>4, <2>6, <3>1 DEF Good, Owners
    <2>7. QED
      BY <2>1, <2>2, <2>3, <2>5, <2>6 DEF HandlesLive
  <1>2. QED
    BY <1>1, Ordered, PTL

(* Every file that is not empty ends in a zero byte: file_write puts it    *)
(* there, and no other command touches it.                                 *)
THEOREM FilesEndInNul == Spec => []EndsInNul
  <1>1. IInv => EndsInNul
    <2> SUFFICES ASSUME IInv, NEW f \in Files(Now), SizeOf(Now, f) > 0, InodeOf(Now, f) \in used
                 PROVE  Contents(Now, f)[SizeOf(Now, f)] = Nul
      BY DEF EndsInNul
    <2>1. PICK s : s = Now
      OBVIOUS
    <2>2. Good(s) /\ f \in Files(s) /\ InodeOf(s, f) \in s.used
      BY <2>1, NowIs DEF IInv
    <2>3. PICK x \in InodeRec : x = Mem(s, f)
      BY <2>2, MemFacts
    <2>4. PICK n \in Nat : n = x.len /\ n = SizeOf(s, f) /\ n > 0
      BY <2>1, <2>2, <2>3, SizeOfType
    <2>5. ZeroEnd(s.disk, x)
      BY <2>2, <2>3 DEF Good, Zeroed, Kept
    <2>6. PICK P \in Nat \ {0} : P = SectorSize
      BY FilesAssumption
    <2>7. PICK a \in Nat, b \in 0 .. P - 1 : a = (n - 1) \div P /\ b = (n - 1) % P /\ n - 1 = P * a + b
      <3>1. n - 1 \in Nat
        BY <2>4
      <3>2. QED
        BY <3>1, Division
    <2>8. a + 1 \in 1 .. Len(x.blocks) /\ b + 1 \in 1 .. SectorSize
      <3>1. a + 1 \in 1 .. SectorsFor(n) /\ b + 1 \in 1 .. SectorSize
        <4>1. n - 1 \in Nat /\ n - 1 < n
          BY <2>4
        <4>2. QED
          BY <2>6, <2>7, <4>1, SectorWithin
      <3>2. PICK l \in Nat : l = Len(x.blocks) /\ SectorsFor(n) <= l
        BY <2>4, InodeFields
      <3>3. PICK m \in Nat : m = SectorsFor(n)
        BY SectorsForType
      <3>4. QED
        BY <3>1, <3>2, <3>3
    <2>9. Place(a + 1, b + 1) >= x.len
      <3>1. Place(a + 1, b + 1) = (a + 1 - 1) * P + (b + 1)
        BY <2>6 DEF Place
      <3>2. a + 1 - 1 = a
        OBVIOUS
      <3>3. a * P = P * a
        OBVIOUS
      <3>4. PICK c \in Nat : c = P * a
        OBVIOUS
      <3>5. c + (b + 1) = n
        <4>1. n - 1 = c + b
          BY <2>7, <3>4, Zenon
        <4>2. QED
          BY <4>1
      <3>6. Place(a + 1, b + 1) = c + (b + 1)
        BY <3>1, <3>2, <3>3, <3>4
      <3>7. QED
        BY <2>4, <3>5, <3>6
    <2>10. Raw(s.disk[x.blocks[a + 1]])[b + 1] = Nul
      BY <2>5, <2>8, <2>9 DEF ZeroEnd
    <2>11. ByteAt(s.disk, x, n - 1) = Nul
      BY <2>6, <2>7, <2>10 DEF ByteAt
    <2>12. Contents(s, f) = [k \in 1 .. x.len |-> ByteAt(s.disk, x, k - 1)]
      BY <2>3, Zenon DEF Contents, Mem
    <2>13. n \in 1 .. x.len
      BY <2>4
    <2>14. Contents(s, f)[n] = ByteAt(s.disk, x, n - 1)
      BY <2>12, <2>13
    <2>15. QED
      BY <2>1, <2>4, <2>11, <2>14
  <1>2. QED
    BY <1>1, Ordered, PTL

(* What follows the end of a file in its last sector is zero, so that      *)
(* recover(2) finds nothing there that the shell has put there.            *)
THEOREM PastEndStaysZero == Spec => []PastEndZero
  <1>1. IInv => PastEndZero
    <2>1. SUFFICES ASSUME IInv, NEW f \in Files(Now), InodeOf(Now, f) \in used,
                          NEW x, x = InMemory(Now, InodeOf(Now, f)), x.len % SectorSize # 0,
                          NEW h \in (x.len % SectorSize) + 1 .. SectorSize
                   PROVE  Raw(disk[x.blocks[SectorsFor(x.len)]])[h] = Nul
      BY Zenon DEF PastEndZero
    <2>2. PICK s : s = Now
      OBVIOUS
    <2>3. Good(s) /\ f \in Files(s) /\ InodeOf(s, f) \in s.used /\ s.disk = disk
      BY <2>1, <2>2, NowIs DEF IInv
    <2>4. x \in InodeRec /\ x = Mem(s, f)
      BY <2>1, <2>2, <2>3, MemFacts DEF Mem
    <2>5. PICK n \in Nat : n = x.len
      BY <2>4, InodeFields
    <2>6. ZeroEnd(s.disk, x)
      BY <2>3, <2>4 DEF Good, Zeroed, Kept
    <2>7. PICK P \in Nat \ {0} : P = SectorSize
      BY FilesAssumption
    <2>8. PICK a \in Nat, b \in 0 .. P - 1 : a = n \div P /\ b = n % P /\ n = P * a + b
      BY Division
    <2>9. b \in 1 .. P - 1 /\ h \in b + 1 .. P /\ h \in 1 .. P
      BY <2>1, <2>5, <2>7, <2>8
    <2>10. SectorsFor(n) = a + 1
      <3>1. a + 1 \in Nat /\ b \in 1 .. P
        BY <2>9
      <3>2. ((a + 1) * P + b - 1) \div P = a + 1
        BY <3>1, Quotient
      <3>3. (a + 1) * P = P * a + P
        OBVIOUS
      <3>4. PICK c \in Nat : c = P * a
        OBVIOUS
      <3>5. n + P - 1 = (a + 1) * P + b - 1
        BY <2>8, <3>3, <3>4
      <3>6. QED
        BY <2>7, <3>2, <3>5 DEF SectorsFor
    <2>11. a + 1 \in 1 .. Len(x.blocks)
      <3>1. PICK l \in Nat : l = Len(x.blocks) /\ SectorsFor(n) <= l
        BY <2>4, <2>5, InodeFields
      <3>2. QED
        BY <2>10, <3>1
    <2>12. Place(a + 1, h) >= x.len
      <3>1. Place(a + 1, h) = (a + 1 - 1) * P + h
        BY <2>7 DEF Place
      <3>2. a + 1 - 1 = a /\ a * P = P * a
        OBVIOUS
      <3>3. PICK c \in Nat : c = P * a
        OBVIOUS
      <3>4. Place(a + 1, h) = c + h
        BY <3>1, <3>2, <3>3
      <3>5. c + h >= n
        BY <2>8, <2>9, <3>3
      <3>6. QED
        BY <2>5, <3>4, <3>5
    <2>13. Raw(s.disk[x.blocks[a + 1]])[h] = Nul
      BY <2>6, <2>7, <2>9, <2>11, <2>12 DEF ZeroEnd
    <2>14. QED
      BY <2>3, <2>5, <2>10, <2>13
  <1>2. QED
    BY <1>1, Ordered, PTL

-----------------------------------------------------------------------------
(* Every command is what FileStore says of it.                             *)

\* The positions of the open files.
Pos(s) == [f \in DOMAIN s.table |-> s.table[f].pos]

(* A command that works on one file moves no other position.               *)
LEMMA ServesPos ==
  ASSUME NEW s, NEW f, NEW t, Serves(s, f, t), NEW p, t.table[f].pos = p
  PROVE  Pos(t) = Store!With(Pos(s), f, p)
  <1>1. /\ DOMAIN t.table = DOMAIN s.table \cup {f}
        /\ \A g \in DOMAIN s.table : g # f => t.table[g] = s.table[g]
    BY DEF Serves
  <1>2. DOMAIN Pos(s) = DOMAIN s.table /\ \A g \in DOMAIN s.table : Pos(s)[g] = s.table[g].pos
    BY DEF Pos
  <1>3. \A g \in DOMAIN t.table : t.table[g].pos = IF g = f THEN p ELSE Pos(s)[g]
    BY <1>1, <1>2
  <1>4. QED
    BY <1>1, <1>2, <1>3 DEF Pos, Store!With

Where == [f \in DOMAIN table |-> table[f].pos]

(* The positions FileStore is given are those of the handles.              *)
LEMMA PosNow == Pos(Now) = Where
  BY NowIs, Zenon DEF Pos, Where

(* A step to t takes FileStore to what t holds.                            *)
LEMMA BarNext ==
  ASSUME NEW t \in State, Becomes(t)
  PROVE  /\ Content(Now)' = Content(t)
         /\ Where' = Pos(t)
  <1>1. Now' = t
    BY BecomesNow
  <1>2. table' = t.table
    BY DEF Becomes
  <1>3. Content(Now)' = Content(t)
    BY <1>1
  <1>4. Where' = Pos(t)
    BY <1>2, Zenon DEF Pos, Where
  <1>5. QED
    BY <1>3, <1>4

(* FileStore's position of a file is the handle's.                         *)
LEMMA StorePosition ==
  ASSUME NEW f
  PROVE  Store!Position(f) = PositionIn(Now, f)
  <1>1. DOMAIN Pos(Now) = DOMAIN Now.table /\ \A g \in DOMAIN Now.table : Pos(Now)[g] = Now.table[g].pos
    BY DEF Pos
  <1>2. Store!Position(f) = IF f \in DOMAIN Pos(Now) THEN Pos(Now)[f] ELSE 0
    BY PosNow, Zenon DEF Store!Position, Where
  <1>3. QED
    BY <1>1, <1>2 DEF PositionIn

(* FileStore has the files the directory names, with their contents.       *)
LEMMA StoreDomain ==
  /\ DOMAIN Content(Now) = Files(Now)
  /\ \A f \in Files(Now) : Content(Now)[f] = Contents(Now, f)
  BY DEF Content

\* What reading and seeking leave.
LEMMA LookIs ==
  ASSUME IInv, NEW f, NEW t, Serves(Now, f, t), t.disk = Now.disk, NEW p, t.table[f].pos = p, Becomes(t)
  PROVE  Content(Now)' = Content(Now) /\ Where' = Store!With(Where, f, p)
  <1>1. PICK s : s = Now
    OBVIOUS
  <1>2. Good(s) /\ Good(t) /\ t \in State
    BY <1>1 DEF IInv, Serves, Good
  <1>3. Files(t) = Files(s) /\ \A g : InodeOf(t, g) = InodeOf(s, g)
    BY <1>1 DEF Serves
  <1>4. \A g \in Files(s) : Contents(t, g) = Contents(s, g)
    BY <1>1, <1>2, <1>3, FrameContents
  <1>5. Content(t) = Content(s)
    BY <1>3, <1>4, SameContent DEF KeepsBytes
  <1>6. Where' = Store!With(Where, f, p)
    BY <1>2, ServesPos, BarNext, PosNow
  <1>7. QED
    BY <1>1, <1>2, <1>5, <1>6, BarNext

(* The command size.                                                       *)
LEMMA SizeRefines ==
  ASSUME IInv, NEW f, Size(f)
  PROVE  Store!Next
  <1>1. f \in Files(Now) /\ Becomes(Opened(Now, f)) /\ Silent
    BY DEF Size, Exists
  <1>2. PICK t : t = Opened(Now, f)
    OBVIOUS
  <1>3. PICK s : s = Now
    OBVIOUS
  <1>4. Good(s)
    BY <1>3 DEF IInv
  <1>5. Serves(s, f, t) /\ Frame(s, t) /\ t.table[f].pos = PositionIn(s, f)
    BY <1>1, <1>2, <1>3, <1>4, OpenedServes
  <1>6. PICK p : p = PositionIn(Now, f)
    OBVIOUS
  <1>7. Content(Now)' = Content(Now) /\ Where' = Store!With(Where, f, p)
    <2>1. Serves(Now, f, t) /\ t.disk = Now.disk /\ t.table[f].pos = p /\ Becomes(t)
      BY <1>1, <1>2, <1>3, <1>5, <1>6 DEF Frame
    <2>2. QED
      BY <2>1, LookIs, Zenon
  <1>8. Store!Open(f)
    BY <1>1, <1>6, <1>7, StorePosition, Zenon DEF Store!Open, Store!At, Where, Silent, Store!Silent
  <1>9. f \in DOMAIN Content(Now)
    BY <1>1, StoreDomain
  <1>10. Store!Look
    BY <1>7, <1>8, <1>9, Zenon DEF Store!Look
  <1>11. QED
    BY <1>10 DEF Store!Next

(* The string bytes start with, of the command and of FileStore.           *)
LEMMA StringIs ==
  ASSUME NEW b \in Seq(Byte)
  PROVE  String(b) = Store!String(b)
  <1>1. PICK l \in Nat : l = Len(b)
    OBVIOUS
  <1> DEFINE Ends(n) == (\A i \in 1 .. n : b[i] # Nul) /\ (n < l => b[n + 1] = Nul)
             I == {i \in 1 .. l : b[i] = Nul}
  <1>2. Store!String(b) = SubSeq(b, 1, CHOOSE n \in 0 .. l : Ends(n))
    BY <1>1, Zenon DEF Store!String
  <1>3. ASSUME NEW n \in 0 .. l, Ends(n) PROVE Store!String(b) = SubSeq(b, 1, n)
    <2>1. ASSUME NEW m \in 0 .. l, Ends(m) PROVE m = n
      BY <1>3, <2>1
    <2>2. (CHOOSE m \in 0 .. l : Ends(m)) = n
      <3> HIDE DEF Ends
      <3> QED BY <1>3, <2>1
    <2>3. QED
      BY <1>2, <2>2
  <1>4. UpToNul(b) = IF I # {} THEN Min(I) ELSE 0
    <2>1. UpToNul(b) = IF \E i \in 1 .. l : b[i] = Nul THEN Min(I) ELSE 0
      BY <1>1 DEF UpToNul, SelectInSeq
    <2>2. QED
      BY <2>1
  <1>5. CASE I = {}
    <2>1. Ends(l)
      BY <1>5
    <2>2. UpToNul(b) = 0
      BY <1>4, <1>5
    <2>3. String(b) = b
      BY <2>2 DEF String
    <2>4. SubSeq(b, 1, l) = b
      BY <1>1
    <2>5. QED
      <3> HIDE DEF Ends
      <3> QED BY <1>3, <2>1, <2>3, <2>4
  <1>6. CASE I # {}
    <2>1. I \in SUBSET Nat
      OBVIOUS
    <2>3. PICK u : u = UpToNul(b)
      OBVIOUS
    <2>4. u \in I /\ \A j \in I : u <= j
      <3> HIDE DEF I
      <3> QED BY <1>4, <1>6, <2>1, <2>3, MinFacts
    <2>5. u \in 1 .. l /\ b[u] = Nul
      BY <2>4
    <2>6. Ends(u - 1)
      <3>1. ASSUME NEW i \in 1 .. u - 1 PROVE b[i] # Nul
        <4>1. i \in 1 .. l
          BY <2>5
        <4>2. i \in I => u <= i
          BY <2>4
        <4>3. QED
          BY <2>5, <4>1, <4>2
      <3>2. QED
        BY <2>5, <3>1
    <2>7. String(b) = SubSeq(b, 1, u - 1)
      BY <2>3, <2>5 DEF String
    <2>8. u - 1 \in 0 .. l
      BY <2>5
    <2>9. QED
      <3> HIDE DEF Ends
      <3> QED BY <1>3, <2>6, <2>7, <2>8
  <1>7. QED
    BY <1>5, <1>6

\* A command that reads the open file f and leaves it at p.
Looked(f, p) == Content(Now)' = Content(Now) /\ Where' = Store!With(Where, f, p)

(* A step that serves one file and writes no sector only moves in it.      *)
LEMMA LookedAt ==
  ASSUME IInv, NEW f, NEW t, Serves(Now, f, t), Frame(Now, t), Becomes(t), NEW p, t.table[f].pos = p
  PROVE  Looked(f, p)
  <1>1. t.disk = Now.disk
    BY DEF Frame
  <1>2. QED
    BY <1>1, LookIs, Zenon DEF Looked

(* The command seek.                                                       *)
LEMMA SeekRefines ==
  ASSUME IInv, NEW f, NEW p \in Offsets, Seek(f, p)
  PROVE  Store!Next
  <1>1. PICK s : s = Now
    OBVIOUS
  <1>2. PICK t : t = Moved(Opened(s, f), f, p)
    OBVIOUS
  <1>3. Good(s) /\ f \in Files(s) /\ p \in Int
    BY <1>1, FilesAssumption DEF IInv, Seek, Exists
  <1>4. Serves(s, f, t) /\ Frame(s, t) /\ t.table[f].pos = p
    BY <1>2, <1>3, SeekServes
  <1>5. Becomes(t) /\ Silent
    BY <1>1, <1>2 DEF Seek
  <1>6. Looked(f, p)
    BY <1>1, <1>4, <1>5, LookedAt
  <1>7. Content(Now)' = Content(Now) /\ Store!Seek(f)
    BY <1>5, <1>6, Zenon DEF Looked, Store!Seek, Store!At, Where, Silent, Store!Silent
  <1>8. f \in DOMAIN Content(Now)
    BY <1>1, <1>3, StoreDomain
  <1>9. Store!Look
    BY <1>7, <1>8, Zenon DEF Store!Look
  <1>10. QED
    BY <1>9 DEF Store!Next

\* What reading n bytes of f delivers and leaves.
LEMMA Reads ==
  ASSUME IInv, NEW f, NEW n \in Nat, Accessible(f), Becomes(ReadFrom(Now, f, n)),
         NEW b, b = Reading(Now, f, n)
  PROVE  /\ b \in Seq(Byte) /\ f \in DOMAIN Content(Now)
         /\ Looked(f, PositionIn(Now, f) + Len(b))
         /\ Delivers(Now, f, n, b)
         /\ PositionIn(Now, f) \in Nat
  <1>1. PICK s : s = Now
    OBVIOUS
  <1>2. PICK t : t = ReadFrom(s, f, n)
    OBVIOUS
  <1>3. PICK F : F = freed
    OBVIOUS
  <1>4. Good(s) /\ Alive(s, F)
    BY <1>1, <1>3 DEF IInv
  <1>5. f \in Files(s) /\ f \notin F /\ PositionIn(s, f) \in Nat
    BY <1>1, <1>3, PositionType DEF Accessible, Exists
  <1>6. PICK z : z = PositionIn(s, f) + Len(b)
    OBVIOUS
  <1>7. /\ Serves(s, f, t) /\ Frame(s, t) /\ b \in Seq(Byte)
        /\ t.table[f].pos = z
    BY <1>1, <1>2, <1>4, <1>5, <1>6, ReadFromServes
  <1>8. Delivers(s, f, n, b)
    BY <1>1, <1>4, <1>5, ReadingIs
  <1>9. Becomes(t)
    BY <1>1, <1>2
  <1>10. Looked(f, z)
    BY <1>1, <1>7, <1>9, LookedAt
  <1>11. f \in DOMAIN Content(Now)
    BY <1>1, <1>5, StoreDomain
  <1>12. Looked(f, PositionIn(Now, f) + Len(b))
    BY <1>1, <1>6, <1>10 DEF Looked
  <1>13. QED
    BY <1>1, <1>5, <1>7, <1>8, <1>11, <1>12

(* The command read.                                                       *)
LEMMA ReadRefines ==
  ASSUME IInv, NEW f, NEW n \in Sizes, Read(f, n)
  PROVE  Store!Next
  <1>1. n \in Nat
    BY FilesAssumption
  <1>2. PICK b : b = Reading(Now, f, n)
    OBVIOUS
  <1>3. Accessible(f) /\ Becomes(ReadFrom(Now, f, n)) /\ out' = b
    BY <1>2 DEF Read
  <1>4. PICK p \in Nat : p = PositionIn(Now, f)
    BY PositionType, <1>3 DEF Accessible
  <1>5. PICK rest : rest = Store!From(Content(Now)[f], p)
    OBVIOUS
  <1>6. f \in DOMAIN Content(Now) /\ Looked(f, p + Len(b)) /\ b = SubSeq(rest, 1, Len(b))
    <2>1. /\ f \in DOMAIN Content(Now) /\ Looked(f, p + Len(b)) /\ Delivers(Now, f, n, b)
      BY <1>1, <1>2, <1>3, <1>4, Reads
    <2>2. Content(Now)[f] = Contents(Now, f)
      BY <2>1, StoreDomain
    <2>3. QED
      BY <1>4, <1>5, <2>1, <2>2, Zenon DEF Delivers
  <1>7. Store!Position(f) = p /\ p >= 0
    BY <1>4, StorePosition
  <1>8. Store!Rest(f) = rest
    BY <1>5, <1>7, Zenon DEF Store!Rest
  <1>9. Store!Read(f)
    BY <1>3, <1>6, <1>7, <1>8, Zenon DEF Looked, Store!Read, Store!At, Store!Accessible, Where
  <1>10. Store!Look
    BY <1>6, <1>9, Zenon DEF Store!Look, Looked
  <1>11. QED
    BY <1>10 DEF Store!Next

(* The command copy_out.                                                   *)
LEMMA CopyOutRefines ==
  ASSUME IInv, NEW f, CopyOut(f)
  PROVE  Store!Next
  <1>0. PICK n : n = SizeOf(Now, f)
    OBVIOUS
  <1>1. n \in Nat
    <2>1. PICK s : s = Now
      OBVIOUS
    <2>2. Good(s) /\ f \in Files(s)
      BY <2>1 DEF IInv, CopyOut, Accessible, Exists
    <2>3. QED
      BY <1>0, <2>1, <2>2, SizeOfType
  <1>2. PICK b : b = Reading(Now, f, n)
    OBVIOUS
  <1>3. Accessible(f) /\ Becomes(ReadFrom(Now, f, n)) /\ out' = String(b)
    BY <1>0, <1>2 DEF CopyOut
  <1>4. PICK p \in Nat : p = PositionIn(Now, f)
    BY PositionType, <1>3 DEF Accessible
  <1>5. PICK rest : rest = Store!From(Content(Now)[f], p)
    OBVIOUS
  <1>6. f \in DOMAIN Content(Now) /\ Looked(f, p + Len(b)) /\ b = rest /\ b \in Seq(Byte)
    <2>1. /\ f \in DOMAIN Content(Now) /\ Looked(f, p + Len(b)) /\ Delivers(Now, f, n, b)
          /\ b \in Seq(Byte)
      BY <1>1, <1>2, <1>3, <1>4, Reads
    <2>2. Content(Now)[f] = Contents(Now, f)
      BY <2>1, StoreDomain
    <2>3. n >= SizeOf(Now, f)
      BY <1>0, <1>1
    <2>4. QED
      BY <1>4, <1>5, <2>1, <2>2, <2>3, Zenon DEF Delivers
  <1>7. Store!Position(f) = p /\ p >= 0
    BY <1>4, StorePosition
  <1>8. Store!Rest(f) = rest
    BY <1>5, <1>7, Zenon DEF Store!Rest
  <1>9. String(b) = Store!String(rest)
    BY <1>6, StringIs
  <1>10. Store!Export(f)
    BY <1>3, <1>6, <1>7, <1>8, <1>9, Zenon DEF Looked, Store!Export, Store!At, Store!Accessible, Where
  <1>11. Store!Look
    BY <1>6, <1>10, Zenon DEF Store!Look, Looked
  <1>12. QED
    BY <1>11 DEF Store!Next

\* What a command that changes neither disk nor directory leaves.
LEMMA StillContent ==
  ASSUME IInv, IInv', UNCHANGED <<used, disk, dir>>
  PROVE  Content(Now)' = Content(Now)
  <1>1. PICK s : s = Now
    OBVIOUS
  <1>2. PICK t : t = Now'
    OBVIOUS
  <1>3. Good(s) /\ Good(t)
    BY <1>1, <1>2 DEF IInv
  <1>4. Frame(s, t)
    BY <1>1, <1>2, NowIs DEF Frame, Now
  <1>5. Content(t) = Content(s)
    BY <1>3, <1>4, FrameContent, SameContent
  <1>6. QED
    BY <1>1, <1>2, <1>5

(* A step that changes no file's contents leaves FileStore's contents.     *)
LEMMA FrameStep ==
  ASSUME IInv, NEW t, Good(t), Frame(Now, t), Becomes(t)
  PROVE  Content(Now)' = Content(Now) /\ Where' = Pos(t)
  <1>1. PICK s : s = Now
    OBVIOUS
  <1>2. Good(s) /\ Frame(s, t)
    BY <1>1 DEF IInv
  <1>3. Content(t) = Content(s)
    BY <1>2, FrameContent, SameContent
  <1>4. t \in State
    BY DEF Good
  <1>5. QED
    BY <1>1, <1>3, <1>4, BarNext

(* The command cat.                                                        *)
LEMMA CatRefines ==
  ASSUME IInv, NEW f, Cat(f)
  PROVE  Store!Next
  <1>1. PICK s : s = Now
    OBVIOUS
  <1>2. PICK m : m = Moved(Opened(s, f), f, 0)
    OBVIOUS
  <1>3. PICK n : n = SizeOf(s, f)
    OBVIOUS
  <1>4. PICK r : r = ReadFrom(m, f, n)
    OBVIOUS
  <1>5. PICK t : t = IF f \in DOMAIN s.table THEN Moved(r, f, s.table[f].pos) ELSE Closed(r, f)
    OBVIOUS
  <1>6. PICK F : F = freed
    OBVIOUS
  <1>7. s.table = table
    BY <1>1, NowIs
  <1>8. Exists(f) /\ Becomes(t) /\ out' = Reading(m, f, n)
    BY <1>1, <1>2, <1>3, <1>4, <1>5, <1>7, Zenon DEF Cat
  <1>9. Good(s) /\ Alive(s, F) /\ f \in Files(s) /\ f \notin F
    BY <1>1, <1>6, <1>7, <1>8 DEF IInv, Exists
  <1>10. /\ Good(t) /\ DOMAIN t.table = DOMAIN s.table
         /\ Frame(s, t) /\ \A g \in DOMAIN s.table : t.table[g].pos = s.table[g].pos
    BY <1>2, <1>3, <1>4, <1>5, <1>9, CatKeeps
  <1>11. Content(Now)' = Content(Now) /\ Where' = Pos(t)
    BY <1>1, <1>8, <1>10, FrameStep
  <1>12. Pos(t) = Pos(s)
    BY <1>10 DEF Pos
  <1>13. Where' = Where
    BY <1>1, <1>11, <1>12, PosNow
  <1>14. Reading(m, f, n) = Contents(s, f)
    <2>1. Serves(s, f, m) /\ Frame(s, m) /\ f \in DOMAIN m.table /\ m.table[f].pos = 0
      BY <1>2, <1>9, SeekServes
    <2>2. Good(m) /\ f \in Files(m) /\ Alive(m, F)
      BY <1>9, <2>1 DEF Serves
    <2>3. n \in Nat /\ PositionIn(m, f) = 0
      BY <1>3, <1>9, <2>1, SizeOfType DEF PositionIn
    <2>4. Delivers(m, f, n, Reading(m, f, n))
      BY <1>9, <2>2, <2>3, ReadingIs
    <2>5. PICK c \in Seq(Byte) : c = Contents(s, f)
      BY <1>9, ContentsType
    <2>6. Contents(m, f) = c
      BY <1>9, <2>1, <2>2, <2>5, FrameContent DEF KeepsBytes
    <2>7. SizeOf(m, f) = n
      <3>1. SizeOf(m, f) = Mem(m, f).len /\ n = Mem(s, f).len
        BY <1>3, <1>9, <2>2, SizeOfType
      <3>2. Len(Contents(m, f)) = Mem(m, f).len /\ Len(Contents(s, f)) = Mem(s, f).len
        BY <1>9, <2>2, ContentsAre
      <3>3. QED
        BY <2>5, <2>6, <3>1, <3>2
    <2>8. Reading(m, f, n) = Store!From(c, 0)
      BY <2>3, <2>4, <2>6, <2>7 DEF Delivers
    <2>9. Store!From(c, 0) = c
      <3>1. /\ Store!From(c, 0) \in Seq(Byte) /\ Len(Store!From(c, 0)) = Len(c)
            /\ \A k \in 1 .. Len(Store!From(c, 0)) : Store!From(c, 0)[k] = c[k]
        BY FromIs
      <3>2. QED
        BY <3>1, SameSeq
    <2>10. QED
      BY <2>5, <2>8, <2>9
  <1>15. f \in DOMAIN Content(Now) /\ out' = Content(Now)[f]
    BY <1>1, <1>8, <1>9, <1>14, StoreDomain
  <1>16. Store!Show(f)
    BY <1>13, <1>15, Zenon DEF Store!Show, Where
  <1>17. Store!Look
    BY <1>11, <1>15, <1>16, Zenon DEF Store!Look
  <1>18. QED
    BY <1>17 DEF Store!Next

(* cat of a path.                                                          *)
LEMMA CatByPathRefines ==
  ASSUME IInv, NEW f, CatByPath(f)
  PROVE  Store!Next
  <1>1. IInv'
    BY CatByPathKeeps
  <1>2. Content(Now)' = Content(Now)
    BY <1>1, StillContent DEF CatByPath
  <1>3. Where' = Where
    BY DEF CatByPath, Where
  <1>4. f \in DOMAIN Content(Now) /\ out' = Content(Now)[f]
    BY StoreDomain DEF CatByPath, Exists
  <1>5. Store!Show(f)
    BY <1>3, <1>4, Zenon DEF Store!Show, Where
  <1>6. Store!Look
    BY <1>2, <1>4, <1>5, Zenon DEF Store!Look
  <1>7. QED
    BY <1>6 DEF Store!Next

(* A new shell on the same disk.                                           *)
LEMMA RestartRefines ==
  ASSUME IInv, Restart
  PROVE  Store!Next
  <1>1. IInv'
    BY RestartStepKeeps
  <1>2. Content(Now)' = Content(Now)
    BY <1>1, StillContent DEF Restart
  <1>3. Where' = <<>>
    <2>1. table' = <<>> /\ DOMAIN <<>> = {}
      BY DEF Restart
    <2>2. DOMAIN table' = {}
      BY <2>1
    <2>3. Where' = [f \in {} |-> table'[f].pos]
      BY <2>2, Zenon DEF Where
    <2>4. [f \in {} |-> table'[f].pos] = <<>>
      OBVIOUS
    <2>5. QED
      BY <2>3, <2>4
  <1>4. Store!Restart
    BY <1>3, Zenon DEF Restart, Silent, Store!Restart, Store!Silent, Where
  <1>5. Store!Look
    BY <1>2, <1>4, Zenon DEF Store!Look
  <1>6. QED
    BY <1>5 DEF Store!Next

\* What opening or reading all files leaves: e(f) is the position of f.
LEMMA AllPos ==
  ASSUME NEW s, Good(s), NEW t, Good(t), Frame(s, t), NEW q, q = Listing(s),
         \A j \in 1 .. Len(q) : q[j] \in DOMAIN t.table
  PROVE  DOMAIN t.table = Files(s) /\ \A f \in Files(s) : \E j \in 1 .. Len(q) : f = q[j]
  <1>1. s \in State /\ Distinct(s.dir)
    BY DEF Good, Named
  <1>2. Among(q) = Files(s)
    BY <1>1, ListingFacts
  <1>3. \A f \in Files(s) : \E j \in 1 .. Len(q) : f = q[j]
    BY <1>2 DEF Among
  <1>4. Files(t) = Files(s)
    BY FrameFiles
  <1>5. DOMAIN t.table \subseteq Files(s)
    BY <1>4 DEF Good, Held
  <1>6. QED
    BY <1>3, <1>5

(* fragmentation_degree and recover 2.                                     *)
LEMMA OpenAllRefines ==
  ASSUME IInv, OpenAll
  PROVE  Store!Next
  <1>1. PICK s : s = Now
    OBVIOUS
  <1>2. PICK t : t = OpenedAll(s)
    OBVIOUS
  <1>3. PICK F : F = freed
    OBVIOUS
  <1>4. Becomes(t) /\ Silent
    BY <1>1, <1>2 DEF OpenAll, OpenedAll
  <1>5. Good(s) /\ Alive(s, F)
    BY <1>1, <1>3, NowIs DEF IInv
  <1>6. PICK q : q = Listing(s)
    OBVIOUS
  <1>7. OpenSome(s, F, q, Len(q), t)
    BY <1>2, <1>5, <1>6, OpenAllKeeps
  <1>8. Good(t) /\ Frame(s, t) /\ DOMAIN t.table = Files(s)
    BY <1>5, <1>6, <1>7, AllPos DEF OpenSome
  <1>9. \A g \in Files(s) : t.table[g].pos = PositionIn(s, g)
    BY <1>7, <1>8 DEF OpenSome
  <1>10. Content(Now)' = Content(Now) /\ Where' = Pos(t)
    BY <1>1, <1>4, <1>8, FrameStep
  <1>11. DOMAIN Content(Now) = Files(s)
    BY <1>1, StoreDomain
  <1>12. Where' = [f \in DOMAIN Content(Now) |-> Store!Position(f)]
    <2>1. \A f : Store!Position(f) = PositionIn(s, f)
      BY <1>1, StorePosition
    <2>2. Pos(t) = [f \in Files(s) |-> PositionIn(s, f)]
      BY <1>8, <1>9 DEF Pos
    <2>3. [f \in DOMAIN Content(Now) |-> Store!Position(f)] = [f \in Files(s) |-> PositionIn(s, f)]
      BY <1>11, <2>1, Zenon
    <2>4. QED
      BY <1>10, <2>2, <2>3, Zenon
  <1>13. Store!OpenEvery
    BY <1>4, <1>12, Zenon DEF Store!OpenEvery, Silent, Store!Silent, Where
  <1>14. Store!Look
    BY <1>10, <1>13, Zenon DEF Store!Look
  <1>15. QED
    BY <1>14 DEF Store!Next

(* The command find_file.                                                  *)
LEMMA FindFileRefines ==
  ASSUME IInv, FindFile
  PROVE  Store!Next
  <1>1. PICK s : s = Now
    OBVIOUS
  <1>2. PICK t : t = ReadAll(s)
    OBVIOUS
  <1>3. AllAccessible /\ Becomes(t) /\ Silent /\ Keeps
    BY <1>1, <1>2 DEF FindFile
  <1>4. freed = {}
    BY <1>3, AllExist DEF AllAccessible, Accessible
  <1>5. Good(s) /\ Alive(s, {})
    BY <1>1, <1>4 DEF IInv
  <1>6. \A g \in Files(s) : PositionIn(s, g) \in Nat
    BY <1>1, <1>3, PositionType DEF AllAccessible, Accessible
  <1>7. PICK q : q = Listing(s)
    OBVIOUS
  <1>8. ReadSome(s, q, Len(q), t)
    BY <1>2, <1>5, <1>6, <1>7, ReadAllKeeps
  <1>9. /\ Good(t) /\ Frame(s, t) /\ DOMAIN t.table = Files(s)
        /\ \A f \in Files(s) : \E j \in 1 .. Len(q) : f = q[j]
    BY <1>5, <1>7, <1>8, AllPos DEF ReadSome
  <1>10. \A f \in Files(s) : t.table[f].pos = EndOf(s, f)
    BY <1>8, <1>9 DEF ReadSome
  <1>11. Content(Now)' = Content(Now) /\ Where' = Pos(t)
    BY <1>1, <1>3, <1>9, FrameStep
  <1>12. DOMAIN Content(Now) = Files(s) /\ \A f \in Files(s) : Content(Now)[f] = Contents(s, f)
    BY <1>1, StoreDomain
  <1>13. \A f : Store!Position(f) = PositionIn(s, f)
    BY <1>1, StorePosition
  <1>14. Where' = [f \in DOMAIN Content(Now) |-> Store!Position(f) + Len(Store!Rest(f))]
    <2>1. \A f \in Files(s) : Store!Rest(f) = Store!From(Contents(s, f), PositionIn(s, f))
      BY <1>12, <1>13, Zenon DEF Store!Rest
    <2>2. \A f \in Files(s) : Store!Position(f) + Len(Store!Rest(f)) = EndOf(s, f)
      BY <1>13, <2>1, Zenon DEF EndOf
    <2>3. Pos(t) = [f \in Files(s) |-> EndOf(s, f)]
      BY <1>9, <1>10 DEF Pos
    <2>4. [f \in DOMAIN Content(Now) |-> Store!Position(f) + Len(Store!Rest(f))]
            = [f \in Files(s) |-> EndOf(s, f)]
      BY <1>12, <2>2, Zenon
    <2>5. QED
      BY <1>11, <2>3, <2>4, Zenon
  <1>15. \A f \in DOMAIN Content(Now) : Store!Accessible(f)
    <2>1. ASSUME NEW f \in DOMAIN Content(Now) PROVE Store!Accessible(f)
      <3>1. Store!Position(f) \in Nat
        BY <1>6, <1>12, <1>13
      <3>2. QED
        BY <3>1 DEF Store!Accessible
    <2>2. QED
      BY <2>1
  <1>16. Store!Search
    BY <1>3, <1>14, <1>15, Zenon DEF Store!Search, Silent, Store!Silent, Where
  <1>17. Store!Look
    BY <1>11, <1>16, Zenon DEF Store!Look
  <1>18. QED
    BY <1>17 DEF Store!Next

(* The command create.                                                     *)
LEMMA CreateRefines ==
  ASSUME IInv, NEW f \in Name, NEW n \in Sizes, Create(f, n)
  PROVE  Store!Next
  <1>1. PICK s : s = Now
    OBVIOUS
  <1>2. PICK t : t = Created(s, f, n)
    OBVIOUS
  <1>3. Good(s) /\ Clean(s)
    BY <1>1, CountsKeeps DEF IInv, Create, Changes
  <1>4. f \in FileName /\ n \in 0 .. MaxLength
    BY FilesAssumption, NameIsFileName
  <1>5. Creates(s, f, n, t) /\ Grants(s, f, n, t)
    BY <1>2, <1>3, <1>4, CreatedKeeps, CreatedContents
  <1>6. Becomes(t) /\ Silent
    BY <1>1, <1>2 DEF Create
  <1>7. t \in State /\ t.table = s.table /\ Files(s) \subseteq Files(t) /\ Files(t) \subseteq Files(s) \cup {f}
    BY <1>5 DEF Creates, Good
  <1>8. Content(Now)' = Content(t) /\ Where' = Pos(t)
    BY <1>6, <1>7, BarNext
  <1>9. Where' = Where
    BY <1>1, <1>7, <1>8, PosNow DEF Pos
  <1>10. /\ DOMAIN Content(t) = Files(t) /\ \A g \in Files(t) : Content(t)[g] = Contents(t, g)
         /\ DOMAIN Content(s) = Files(s) /\ \A g \in Files(s) : Content(s)[g] = Contents(s, g)
    BY DEF Content
  <1>11. \A g \in Files(s) : Content(t)[g] = Content(s)[g]
    BY <1>5, <1>7, <1>10 DEF Grants
  <1>12. CASE f \in Files(t) \ Files(s)
    <2>1. Content(t)[f] = Store!Zeros(n)
      BY <1>5, <1>10, <1>12 DEF Grants
    <2>2. Len(Store!Zeros(n)) = n
      BY <1>4 DEF Store!Zeros
    <2>3. Content(t) = Store!With(Content(s), f, Store!Zeros(n))
      <3>1. DOMAIN Content(t) = DOMAIN Content(s) \cup {f}
        BY <1>7, <1>10, <1>12
      <3>2. \A g \in DOMAIN Content(t) : Content(t)[g] = IF g = f THEN Store!Zeros(n) ELSE Content(s)[g]
        BY <1>7, <1>10, <1>11, <1>12, <2>1
      <3>3. Content(t) = [g \in DOMAIN Content(t) |-> Content(t)[g]]
        BY DEF Content
      <3>4. QED
        BY <3>1, <3>2, <3>3 DEF Store!With
    <2>4. Len(Content(Now)'[f]) = n
      BY <1>8, <2>1, <2>2
    <2>5. Content(Now)' = Store!With(Content(Now), f, Store!Zeros(Len(Content(Now)'[f])))
      BY <1>1, <1>8, <2>3, <2>4, Zenon
    <2>6. f \in DOMAIN Content(Now)' \ DOMAIN Content(Now)
      BY <1>1, <1>8, <1>10, <1>12
    <2>7. Store!Create(f)
      BY <1>6, <1>9, <2>5, <2>6, Zenon DEF Store!Create, Silent, Store!Silent, Where
    <2>8. QED
      BY <2>7 DEF Store!Next
  <1>13. CASE ~(f \in Files(t) \ Files(s))
    <2>1. DOMAIN Content(Now) \subseteq DOMAIN Content(Now)'
      BY <1>1, <1>7, <1>8, <1>10
    <2>2. \A g \in DOMAIN Content(Now) : Content(Now)'[g] = Content(Now)[g]
      BY <1>1, <1>8, <1>10, <1>11
    <2>3. Store!Relink
      BY <1>6, <1>9, <2>1, <2>2, Zenon DEF Store!Relink, Silent, Store!Silent, Where
    <2>4. QED
      BY <2>3 DEF Store!Next
  <1>14. QED
    BY <1>12, <1>13

(* The command rm.                                                         *)
LEMMA RmRefines ==
  ASSUME IInv, NEW f \in Name, Rm(f)
  PROVE  Store!Next
  <1>1. PICK s : s = Now
    OBVIOUS
  <1>2. PICK t : t = Gone(s, f)
    OBVIOUS
  <1>3. Becomes(t) /\ Silent /\ Changes /\ Exists(f)
    BY <1>1, <1>2 DEF Rm
  <1>4. Good(s) /\ Clean(s) /\ f \in Files(s)
    BY <1>1, <1>3, CountsKeeps DEF IInv, Changes, Exists
  <1>5. /\ Good(t)
        /\ Files(t) = Files(s) \ {f}
        /\ \A g \in Files(t) : InodeOf(t, g) = InodeOf(s, g)
        /\ DOMAIN t.table = DOMAIN s.table \ {f}
        /\ \A g \in DOMAIN t.table : t.table[g] = s.table[g]
        /\ t.disk = s.disk
    BY <1>2, <1>4, GoneKeeps
  <1>6. Content(Now)' = Content(t) /\ Where' = Pos(t)
    BY <1>3, <1>5, BarNext DEF Good
  <1>7. \A g \in Files(t) : Contents(t, g) = Contents(s, g)
    BY <1>4, <1>5, FrameContents
  <1>8. Content(t) = Store!Without(Content(s), f)
    BY <1>5, <1>7 DEF Content, Store!Without
  <1>9. Pos(t) = Store!Without(Pos(s), f)
    BY <1>5 DEF Pos, Store!Without
  <1>10. Content(Now)' = Store!Without(Content(Now), f)
    BY <1>1, <1>6, <1>8
  <1>11. Where' = Store!Without(Where, f)
    BY <1>1, <1>6, <1>9, PosNow
  <1>12. Store!Remove(f)
    BY <1>3, <1>10, <1>11, Zenon DEF Store!Remove, Silent, Store!Silent, Where
  <1>13. QED
    BY <1>12 DEF Store!Next

(* What file_write leaves, as FileStore sees it, when nothing was written  *)
(* to any file before it in the command.                                   *)
LEMMA WroteRefines ==
  ASSUME NEW m, Content(m) = Content(Now), m.table = Now.table, NEW f \in Files(m),
         PositionIn(m, f) \in Nat, NEW b, NEW t \in State, Wrote(m, f, b, t), Becomes(t),
         Files(t) = Files(m), DOMAIN t.table = DOMAIN m.table \cup {f}, Silent
  PROVE  Store!Put(f, b) \/ Store!Look
  <1>1. PICK p \in Nat : p = PositionIn(m, f)
    OBVIOUS
  <1>2. Store!Position(f) = p
    BY <1>1, StorePosition DEF PositionIn
  <1>3. Content(Now)' = Content(t) /\ Where' = Pos(t)
    BY BarNext
  <1>4. PICK c : c = Contents(m, f)
    OBVIOUS
  <1>5. /\ DOMAIN Content(m) = Files(m) /\ \A g \in Files(m) : Content(m)[g] = Contents(m, g)
        /\ DOMAIN Content(t) = Files(m) /\ \A g \in Files(m) : Content(t)[g] = Contents(t, g)
        /\ Content(t) = [g \in Files(m) |-> Content(t)[g]]
        /\ Content(m) = [g \in Files(m) |-> Content(m)[g]]
    BY DEF Content
  <1>6. \A g \in Files(m) : g # f => Content(t)[g] = Content(m)[g]
    BY <1>5 DEF Wrote
  <1>7. \A g \in DOMAIN m.table : g # f => t.table[g] = m.table[g]
    BY DEF Wrote
  <1>8. ASSUME NEW z, t.table[f].pos = z PROVE Where' = Store!With(Where, f, z)
    <2>1. Pos(t) = Store!With(Pos(m), f, z)
      <3>1. DOMAIN Pos(m) = DOMAIN m.table /\ \A g \in DOMAIN m.table : Pos(m)[g] = m.table[g].pos
        BY DEF Pos
      <3>2. \A g \in DOMAIN t.table : t.table[g].pos = IF g = f THEN z ELSE Pos(m)[g]
        BY <1>7, <1>8, <3>1
      <3>3. QED
        BY <3>1, <3>2 DEF Pos, Store!With
    <2>2. Pos(m) = Where
      BY PosNow DEF Pos
    <2>3. QED
      BY <1>3, <2>1, <2>2
  <1>9. f \in DOMAIN Content(Now) /\ Content(Now)[f] = c
    BY <1>4, <1>5
  <1>10. Store!Accessible(f)
    <2>1. p >= 0
      OBVIOUS
    <2>2. QED
      BY <1>2, <2>1, Zenon DEF Store!Accessible
  <1>11. \/ Contents(t, f) = c /\ t.table[f].pos = p - 2
         \/ Contents(t, f) = Store!Spliced(c, p, b) /\ t.table[f].pos = p + Len(b) - 2
    BY <1>1, <1>4, Zenon DEF Wrote
  <1>12. ASSUME Contents(t, f) = c, t.table[f].pos = p - 2 PROVE Store!Look
    <2>1. \A g \in Files(m) : Content(t)[g] = Content(m)[g]
      BY <1>4, <1>5, <1>6, <1>12
    <2>2. Content(t) = Content(m)
      BY <1>5, <2>1
    <2>3. Content(Now)' = Content(Now)
      BY <1>3, <2>2
    <2>4. Where' = Store!With(Where, f, p - 2)
      BY <1>8, <1>12
    <2>5. Store!Refuse(f)
      BY <1>2, <1>10, <2>4, Zenon DEF Store!Refuse, Store!At, Where, Store!Silent, Silent
    <2>6. QED
      BY <1>9, <2>3, <2>5, Zenon DEF Store!Look
  <1>13. ASSUME Contents(t, f) = Store!Spliced(c, p, b), t.table[f].pos = p + Len(b) - 2
         PROVE Store!Put(f, b)
    <2>1. PICK v : v = Store!Spliced(c, p, b)
      OBVIOUS
    <2>2. Content(t)[f] = v
      BY <1>5, <1>13, <2>1
    <2>3. Content(t) = [Content(m) EXCEPT ![f] = v]
      BY <1>5, <1>6, <2>2
    <2>4. Content(Now)' = [Content(Now) EXCEPT ![f] = v]
      BY <1>3, <2>3
    <2>5. v = Store!Spliced(Content(Now)[f], Store!Position(f), b)
      BY <1>2, <1>9, <2>1, Zenon
    <2>6. Where' = Store!With(Where, f, p + Len(b) - 2)
      BY <1>8, <1>13
    <2>7. Content(Now)' = [Content(Now) EXCEPT ![f] = Store!Spliced(@, Store!Position(f), b)]
      BY <2>4, <2>5, Zenon
    <2>8. Store!At(f, Store!Position(f) + Len(b) - 2)
      BY <1>2, <2>6, Zenon DEF Store!At, Where
    <2>9. QED
      BY <1>9, <1>10, <2>7, <2>8, Zenon DEF Store!Put, Store!Silent, Silent
  <1>14. QED
    BY <1>11, <1>12, <1>13

(* The command write.                                                      *)
LEMMA WriteRefines ==
  ASSUME IInv, NEW f \in Name, NEW text \in Text, Write(f, text)
  PROVE  Store!Next
  <1>1. PICK s : s = Now
    OBVIOUS
  <1>2. PICK bytes : bytes = text \o Zeros(2)
    OBVIOUS
  <1>3. PICK t : t = WroteTo(s, f, bytes)
    OBVIOUS
  <1>4. /\ Becomes(t) /\ Counts /\ Silent /\ Accessible(f)
        /\ Position(f) + Len(text) + 2 <= MaxLength
    BY <1>1, <1>2, <1>3 DEF Write, Changes
  <1>5. PICK F : F = freed
    OBVIOUS
  <1>6. Good(s) /\ Clean(s) /\ F \subseteq DOMAIN s.table /\ Alive(s, F)
    BY <1>1, <1>4, <1>5, CountsKeeps, NowIs DEF IInv
  <1>7. PICK p \in Nat : p = PositionIn(s, f)
    BY <1>1, <1>4, PositionType DEF Accessible
  <1>8. f \in Files(s) /\ f \notin F /\ p + Len(text) + 2 <= MaxLength
    BY <1>1, <1>4, <1>5, <1>7, PositionIs DEF Accessible, Exists
  <1>9. PICK l \in Nat : l = Len(text)
    BY FilesAssumption
  <1>10. PICK y \in Seq(Byte) : y = text /\ Len(y) = l
    BY <1>9, FilesAssumption, QuietFacts
  <1>11. PICK z \in Seq(Byte) : z = Zeros(2) /\ Len(z) = 2 /\ z[2] = Nul
    <2>1. Zeros(2) \in Seq(Byte) /\ Len(Zeros(2)) = 2 /\ Zeros(2)[2] = Nul
      BY QuietFacts DEF Zeros
    <2>2. QED
      BY <2>1, Zenon
  <1>12. PICK b \in Seq(Byte) : b = bytes /\ Len(b) = l + 2 /\ b[l + 2] = Nul
    <2>1. /\ y \o z \in Seq(Byte) /\ Len(y \o z) = Len(y) + Len(z)
          /\ \A k \in 1 .. Len(y) + Len(z) : (y \o z)[k] = IF k <= Len(y) THEN y[k] ELSE z[k - Len(y)]
      BY ConcatProperties
    <2>2. PICK w \in Seq(Byte) : w = y \o z
      BY <2>1
    <2>3. Len(w) = l + 2 /\ \A k \in 1 .. l + 2 : w[k] = IF k <= l THEN y[k] ELSE z[k - l]
      BY <1>10, <1>11, <2>1, <2>2
    <2>4. w[l + 2] = Nul
      <3>1. l + 2 \in 1 .. l + 2 /\ ~(l + 2 <= l) /\ (l + 2) - l = 2
        OBVIOUS
      <3>2. QED
        BY <1>11, <2>3, <3>1
    <2>5. w = bytes
      BY <1>2, <1>10, <1>11, <2>2, Zenon
    <2>6. QED
      BY <2>3, <2>4, <2>5
  <1>13. /\ PositionIn(s, f) \in Nat /\ PositionIn(s, f) + Len(b) <= MaxLength
         /\ PositionIn(s, f) + Len(b) = 0 => Mem(s, f).len = 0
    <2>1. p + (l + 2) <= MaxLength /\ p + (l + 2) # 0
      BY <1>8, <1>9, FilesAssumption
    <2>2. QED
      BY <1>7, <1>12, <2>1
  <1>14. t = WroteTo(s, f, b)
    BY <1>3, <1>12
  <1>15. /\ Good(t) /\ Files(t) = Files(s) /\ DOMAIN t.table = DOMAIN s.table \cup {f}
         /\ Wrote(s, f, Terminated(b), t)
    BY <1>6, <1>8, <1>13, <1>14, WroteToKeeps
  <1>16. Terminated(b) = b
    <2>1. Terminated(b) = [k \in 1 .. l + 2 |-> IF k = l + 2 THEN Nul ELSE b[k]]
      BY <1>12 DEF Terminated
    <2>2. \A k \in 1 .. l + 2 : (IF k = l + 2 THEN Nul ELSE b[k]) = b[k]
      BY <1>12
    <2>3. b = [k \in 1 .. l + 2 |-> b[k]]
      BY <1>12
    <2>4. QED
      BY <2>1, <2>2, <2>3
  <1>17. t \in State
    BY <1>15 DEF Good
  <1>18. Store!Put(f, b) \/ Store!Look
    BY <1>1, <1>4, <1>7, <1>8, <1>15, <1>16, <1>17, WroteRefines
  <1>19. b = text \o Store!Zeros(2)
    BY <1>2, <1>12 DEF Zeros, Store!Zeros
  <1>20. Store!Put(f, b) => Store!Write(f)
    BY <1>19, Zenon DEF Store!Write
  <1>21. QED
    BY <1>18, <1>20 DEF Store!Next

\* b is the start of the host's file, and a zero.
CutOff(f, b) == \E k \in 0 .. Len(Host[f]) : b = SubSeq(Host[f], 1, k) \o <<Nul>>

(* What copy_in writes: the start of the host's file, and a zero.          *)
LEMMA FitsIs ==
  ASSUME NEW f \in Name, NEW free \in Nat, free > 0, NEW bytes, bytes = Host[f] \o <<Nul>>,
         NEW fits, fits = SubSeq(bytes, 1, Min({free, Len(bytes)}))
  PROVE  CutOff(f, Terminated(fits))
  <1>1. PICK host \in Seq(Byte) : host = Host[f]
    BY FilesAssumption, QuietFacts
  <1>2. PICK z \in Seq(Byte) : z = <<Nul>> /\ Len(z) = 1 /\ z[1] = Nul
    <2>1. <<Nul>> \in Seq(Byte) /\ Len(<<Nul>>) = 1 /\ <<Nul>>[1] = Nul
      BY QuietFacts
    <2>2. QED
      BY <2>1, Zenon
  <1>3. PICK h \in Nat : h = Len(host)
    OBVIOUS
  <1>4. PICK all \in Seq(Byte) : all = bytes /\ Len(all) = h + 1 /\ \A k \in 1 .. h : all[k] = host[k]
    <2>1. /\ host \o z \in Seq(Byte) /\ Len(host \o z) = Len(host) + Len(z)
          /\ \A k \in 1 .. Len(host) + Len(z) :
               (host \o z)[k] = IF k <= Len(host) THEN host[k] ELSE z[k - Len(host)]
      BY ConcatProperties
    <2>2. PICK w \in Seq(Byte) : w = host \o z
      BY <2>1
    <2>3. Len(w) = h + 1 /\ \A k \in 1 .. h : w[k] = host[k]
      BY <1>2, <1>3, <2>1, <2>2
    <2>4. w = bytes
      BY <1>1, <1>2, <2>2, Zenon
    <2>5. QED
      BY <2>3, <2>4
  <1>5. PICK n \in Nat : n = Min({free, Len(bytes)}) /\ n > 0 /\ n <= h + 1
    <2>1. PICK l \in Nat : l = h + 1
      OBVIOUS
    <2>2. Min({free, l}) = IF free <= l THEN free ELSE l
      BY MinOfTwo
    <2>3. PICK n \in Nat : n = (IF free <= l THEN free ELSE l) /\ n > 0 /\ n <= l
      <3>1. CASE free <= l
        BY <3>1
      <3>2. CASE ~(free <= l)
        <4>1. l > 0 /\ l <= l
          BY <2>1
        <4>2. QED
          BY <3>2, <4>1
      <3>3. QED
        BY <3>1, <3>2, Zenon
    <2>4. Len(bytes) = l
      BY <1>4, <2>1
    <2>5. n = Min({free, Len(bytes)})
      BY <2>2, <2>3, <2>4, Zenon
    <2>6. QED
      BY <2>1, <2>3, <2>5
  <1>6. PICK k \in 0 .. h : k = n - 1
    BY <1>5
  <1>7. PICK a : a = fits /\ a \in Seq(Byte) /\ Len(a) = n /\ \A j \in 1 .. n : a[j] = all[j]
    <2>1. n \in 0 .. Len(all)
      BY <1>4, <1>5
    <2>2. SubSeq(all, 1, n) \in Seq(Byte) /\ Len(SubSeq(all, 1, n)) = n
          /\ \A j \in 1 .. n : SubSeq(all, 1, n)[j] = all[j]
      BY <2>1, FirstIs
    <2>3. fits = SubSeq(all, 1, n)
      BY <1>4, <1>5
    <2>4. QED
      BY <2>2, <2>3
  <1>8. PICK b \in Seq(Byte) : b = Terminated(fits) /\ b = Terminated(a) /\ Len(b) = n
    <2>1. Terminated(a) \in Seq(Byte) /\ Len(Terminated(a)) = n
      BY <1>7, TerminatedIs
    <2>2. Terminated(fits) = Terminated(a)
      BY <1>7
    <2>3. QED
      BY <2>1, <2>2
  <1>8a. \A j \in 1 .. n : b[j] = IF j = n THEN Nul ELSE a[j]
    <2>1. DOMAIN a = 1 .. n
      BY <1>7
    <2>2. \A j \in 1 .. n : Terminated(a)[j] = IF j = n THEN Nul ELSE a[j]
      BY <1>7, <2>1 DEF Terminated
    <2>3. QED
      BY <1>8, <2>2
  <1>9. PICK u : u = SubSeq(host, 1, k) /\ u \in Seq(Byte) /\ Len(u) = k /\ \A j \in 1 .. k : u[j] = host[j]
    <2>1. k \in 0 .. Len(host)
      BY <1>3
    <2>2. SubSeq(host, 1, k) \in Seq(Byte) /\ Len(SubSeq(host, 1, k)) = k
          /\ \A j \in 1 .. k : SubSeq(host, 1, k)[j] = host[j]
      BY <2>1, FirstIs
    <2>3. QED
      BY <2>2
  <1>10. PICK v : /\ v = u \o z /\ v \in Seq(Byte) /\ Len(v) = k + 1
                  /\ \A j \in 1 .. k + 1 : v[j] = IF j <= k THEN u[j] ELSE z[j - k]
    <2>1. /\ u \o z \in Seq(Byte) /\ Len(u \o z) = Len(u) + Len(z)
          /\ \A j \in 1 .. Len(u) + Len(z) : (u \o z)[j] = IF j <= Len(u) THEN u[j] ELSE z[j - Len(u)]
      BY <1>9, ConcatProperties
    <2>2. PICK w \in Seq(Byte) : w = u \o z
      BY <2>1
    <2>3. Len(w) = k + 1 /\ \A j \in 1 .. k + 1 : w[j] = IF j <= k THEN u[j] ELSE z[j - k]
      BY <1>2, <1>9, <2>1, <2>2
    <2>4. QED
      BY <2>2, <2>3
  <1>11. ASSUME NEW j \in 1 .. n PROVE b[j] = v[j]
    <2>1. CASE j = n
      <3>1. j \in 1 .. k + 1 /\ ~(j <= k) /\ j - k = 1
        BY <1>6, <2>1
      <3>2. b[j] = Nul
        BY <1>8a, <2>1
      <3>3. v[j] = z[j - k]
        BY <1>10, <3>1
      <3>4. QED
        BY <1>2, <3>1, <3>2, <3>3
    <2>2. CASE j # n
      <3>1. j \in 1 .. k /\ j \in 1 .. k + 1 /\ j <= k /\ j \in 1 .. h
        BY <1>6, <2>2
      <3>2. v[j] = host[j]
        BY <1>9, <1>10, <3>1
      <3>3. b[j] = a[j] /\ a[j] = all[j] /\ all[j] = host[j]
        BY <1>4, <1>7, <1>8, <1>8a, <2>2, <3>1
      <3>4. QED
        BY <3>2, <3>3
    <2>3. QED
      BY <2>1, <2>2
  <1>12. b = v
    <2>1. Len(v) = n
      BY <1>6, <1>10
    <2>2. QED
      BY <1>8, <1>8a, <1>10, <1>11, <2>1, SameSeq
  <1>13. Terminated(fits) = SubSeq(Host[f], 1, k) \o <<Nul>>
    BY <1>1, <1>2, <1>8, <1>8a, <1>9, <1>10, <1>12, Zenon
  <1>14. k \in 0 .. Len(Host[f])
    BY <1>1, <1>3
  <1>15. QED
    BY <1>13, <1>14, Zenon DEF CutOff

(* The command copy_in.                                                    *)
LEMMA CopyInRefines ==
  ASSUME IInv, NEW f \in Name, CopyIn(f)
  PROVE  Store!Next
  <1>1. PICK s : s = Now
    OBVIOUS
  <1>2. PICK free : free = Cardinality(Free(s))
    OBVIOUS
  <1>3. PICK bytes : bytes = Host[f] \o <<Nul>>
    OBVIOUS
  <1>4. PICK fits : fits = SubSeq(bytes, 1, Min({free, Len(bytes)}))
    OBVIOUS
  <1>5. PICK made : made = Created(s, f, Len(fits))
    OBVIOUS
  <1>6. PICK t : t = IF f \in Files(made) THEN WroteTo(made, f, fits) ELSE made
    OBVIOUS
  <1>7. PICK F : F = freed
    OBVIOUS
  <1>8. /\ Counts /\ free > 0 /\ Position(f) >= 0 /\ f \notin F
        /\ Position(f) + Len(fits) <= MaxLength
        /\ Becomes(t) /\ Silent
    BY <1>1, <1>2, <1>3, <1>4, <1>5, <1>6, <1>7, Zenon DEF CopyIn, Changes
  <1>9. Good(s) /\ Clean(s) /\ F \subseteq DOMAIN s.table /\ Alive(s, F)
    BY <1>1, <1>7, <1>8, CountsKeeps, NowIs DEF IInv
  <1>10. PositionIn(s, f) \in Nat /\ PositionIn(s, f) + Len(fits) <= MaxLength
    BY <1>1, <1>8, PositionIs, PositionType
  <1>11. free \in Nat
    <2>1. Free(s) \in SUBSET Sector
      BY DEF Free
    <2>2. QED
      BY <1>2, <2>1, SectorsFinite
  <1>12. fits \in Seq(Byte) /\ Len(fits) > 0
    BY <1>3, <1>4, <1>8, <1>11, FitsType
  <1>13. f \in FileName
    BY NameIsFileName
  <1>14. PICK b \in Seq(Byte) : b = Terminated(fits) /\ Len(b) = Len(fits)
    BY <1>12, TerminatedIs
  <1>15. PICK l \in Nat : l = Len(fits) /\ l > 0
    BY <1>12
  <1>16. PICK k \in 0 .. Len(Host[f]) : b = SubSeq(Host[f], 1, k) \o <<Nul>>
    <2>1. CutOff(f, Terminated(fits))
      BY <1>3, <1>4, <1>8, <1>11, FitsIs
    <2>2. QED
      BY <1>14, <2>1, Zenon DEF CutOff
  <1>17. l \in 0 .. MaxLength
    <2>1. PICK p \in Nat : p = PositionIn(s, f)
      BY <1>10
    <2>2. QED
      BY <1>10, <1>15, <2>1, FilesAssumption
  <1>18. made = Created(s, f, l)
    BY <1>5, <1>15
  <1>19. Creates(s, f, l, made) /\ Grants(s, f, l, made)
    BY <1>9, <1>13, <1>17, <1>18, CreatedKeeps, CreatedContents
  <1>20. /\ Good(made) /\ Clean(made) /\ made.table = s.table
         /\ Files(s) \subseteq Files(made) /\ Files(made) \subseteq Files(s) \cup {f}
    BY <1>19 DEF Creates
  <1>21. Alive(made, F)
    <2>1. \A g \in DOMAIN s.table : g \in Files(s) /\ InodeOf(made, g) = InodeOf(s, g)
      BY <1>9, <1>19 DEF Creates, Good, Held
    <2>2. made.inodes = s.inodes
      BY <1>19 DEF Creates
    <2>3. QED
      BY <1>9, <1>20, <2>1, <2>2 DEF Alive
  <1>22. \A g \in Files(s) : Contents(made, g) = Contents(s, g)
    BY <1>19 DEF Grants
  <1>23. ASSUME Files(made) = Files(s) PROVE Content(made) = Content(Now)
    BY <1>1, <1>22, <1>23 DEF Content
  <1>24. ASSUME Store!Put(f, b) PROVE Store!Next
    <2>1. Store!Import(f)
      BY <1>16, <1>24, Zenon DEF Store!Import
    <2>2. QED
      BY <2>1 DEF Store!Next
  <1>25. ASSUME f \in Files(made)
         PROVE /\ Good(t) /\ Files(t) = Files(made) /\ DOMAIN t.table = DOMAIN made.table \cup {f}
               /\ Wrote(made, f, b, t) /\ PositionIn(made, f) \in Nat
    <2>1. t = WroteTo(made, f, fits)
      BY <1>6, <1>25
    <2>2. PositionIn(made, f) = PositionIn(s, f)
      BY <1>20 DEF PositionIn
    <2>3. PICK p \in Nat : p = PositionIn(made, f)
      BY <1>10, <2>2
    <2>4. p + l <= MaxLength /\ p + l # 0
      BY <1>10, <1>15, <2>2, <2>3
    <2>5. /\ PositionIn(made, f) \in Nat /\ PositionIn(made, f) + Len(fits) <= MaxLength
          /\ PositionIn(made, f) + Len(fits) = 0 => Mem(made, f).len = 0
      BY <1>15, <2>3, <2>4
    <2>6. QED
      BY <1>8, <1>12, <1>14, <1>20, <1>21, <1>25, <2>1, <2>5, WroteToKeeps
  <1>26. CASE f \notin Files(made)
    <2>1. t = made /\ Files(made) = Files(s)
      BY <1>6, <1>20, <1>26
    <2>2. Content(t) = Content(Now)
      BY <1>23, <2>1
    <2>3. Content(Now)' = Content(t) /\ Where' = Pos(t)
      BY <1>8, <1>20, <2>1, BarNext DEF Good
    <2>4. Where' = Where
      BY <1>1, <1>20, <2>1, <2>3, PosNow DEF Pos
    <2>5. Store!Relink
      BY <1>8, <2>2, <2>3, <2>4, Zenon DEF Store!Relink, Silent, Store!Silent, Where
    <2>6. QED
      BY <2>5 DEF Store!Next
  <1>27. CASE f \in Files(s)
    <2>1. Files(made) = Files(s) /\ f \in Files(made)
      BY <1>20, <1>27
    <2>2. Content(made) = Content(Now)
      BY <1>23, <2>1
    <2>3. made.table = Now.table
      BY <1>1, <1>20
    <2>4. t \in State
      BY <1>25, <2>1 DEF Good
    <2>5. Store!Put(f, b) \/ Store!Look
      BY <1>8, <1>25, <2>1, <2>2, <2>3, <2>4, WroteRefines
    <2>6. QED
      BY <1>24, <2>5 DEF Store!Next
  <1>28. CASE f \in Files(made) \ Files(s)
    <2>1. f \notin DOMAIN s.table
      BY <1>9, <1>28 DEF Good, Held
    <2>2. PositionIn(made, f) = 0
      BY <1>20, <2>1 DEF PositionIn
    <2>3. PICK c \in Seq(Byte) : c = Contents(made, f)
      BY <1>20, <1>28, ContentsType
    <2>4. Len(c) = l
      <3>1. Mem(made, f).len = l
        BY <1>19, <1>28 DEF Creates
      <3>2. QED
        BY <1>20, <1>28, <2>3, <3>1, ContentsAre
    <2>5. Wrote(made, f, b, t)
      BY <1>25, <1>28
    <2>6. \/ Contents(t, f) = c /\ t.table[f].pos = 0 - 2 /\ Len(c) < 0 + Len(b)
          \/ Contents(t, f) = Store!Spliced(c, 0, b) /\ t.table[f].pos = 0 + Len(b) - 2
      BY <2>2, <2>3, <2>5, Zenon DEF Wrote
    <2>7. ~(Len(c) < 0 + Len(b)) /\ Len(c) = Len(b)
      BY <1>14, <1>15, <2>4
    <2>8. Contents(t, f) = b /\ t.table[f].pos = Len(b) - 2
      <3>1. Store!Spliced(c, 0, b) = b
        BY <2>7, SplicedWhole
      <3>2. 0 + Len(b) - 2 = Len(b) - 2
        BY <1>14, <1>15
      <3>3. QED
        BY <2>6, <2>7, <3>1, <3>2
    <2>9. Content(Now)' = Content(t) /\ Where' = Pos(t)
      BY <1>8, <1>25, <1>28, BarNext DEF Good
    <2>10. Files(t) = Files(s) \cup {f} /\ DOMAIN t.table = DOMAIN s.table \cup {f}
      BY <1>20, <1>25, <1>28
    <2>11. /\ \A g \in Files(s) : Contents(t, g) = Contents(s, g)
           /\ \A g \in DOMAIN s.table : t.table[g] = s.table[g]
      <3>1. /\ \A g \in Files(made) : g # f => Contents(t, g) = Contents(made, g)
            /\ \A g \in DOMAIN made.table : g # f => t.table[g] = made.table[g]
        BY <2>5 DEF Wrote
      <3>2. QED
        BY <1>20, <1>22, <1>28, <2>1, <3>1
    <2>12. Content(t) = Store!With(Content(s), f, b)
      <3>1. /\ DOMAIN Content(t) = Files(t) /\ \A g \in Files(t) : Content(t)[g] = Contents(t, g)
            /\ DOMAIN Content(s) = Files(s) /\ \A g \in Files(s) : Content(s)[g] = Contents(s, g)
            /\ Content(t) = [g \in Files(t) |-> Content(t)[g]]
        BY DEF Content
      <3>2. \A g \in Files(t) : Content(t)[g] = IF g = f THEN b ELSE Content(s)[g]
        BY <2>8, <2>10, <2>11, <3>1
      <3>3. QED
        BY <2>10, <3>1, <3>2 DEF Store!With
    <2>13. PICK z : z = Len(b) - 2
      OBVIOUS
    <2>14. Pos(t) = Store!With(Pos(s), f, z)
      <3>1. DOMAIN Pos(s) = DOMAIN s.table /\ \A g \in DOMAIN s.table : Pos(s)[g] = s.table[g].pos
        BY DEF Pos
      <3>2. \A g \in DOMAIN t.table : t.table[g].pos = IF g = f THEN z ELSE Pos(s)[g]
        BY <2>1, <2>8, <2>10, <2>11, <2>13, <3>1
      <3>3. QED
        BY <2>10, <3>1, <3>2 DEF Pos, Store!With
    <2>15. /\ Content(Now)' = Store!With(Content(Now), f, b)
           /\ Where' = Store!With(Where, f, Len(b) - 2)
           /\ f \notin DOMAIN Content(Now)
      <3>1. f \notin DOMAIN Content(s)
        BY <1>28 DEF Content
      <3>2. QED
        BY <1>1, <2>9, <2>12, <2>13, <2>14, <3>1, PosNow
    <2>16. Store!Import(f)
      BY <1>8, <1>16, <2>15, Zenon DEF Store!Import, Store!At, Silent, Store!Silent, Where
    <2>17. QED
      BY <2>16 DEF Store!Next
  <1>29. QED
    BY <1>26, <1>27, <1>28

(* recover(0).                                                             *)
LEMMA Recover0Refines ==
  ASSUME IInv, Recover0
  PROVE  Store!Next
  <1>1. PICK s : s = Now
    OBVIOUS
  <1>2. PICK t : t = FoldLeft(Relinked, s, Ascending(Free(s)))
    OBVIOUS
  <1>3. PICK F : F = freed
    OBVIOUS
  <1>4. Becomes(t) /\ Silent
    BY <1>1, <1>2 DEF Recover0
  <1>5. Good(s) /\ Alive(s, F)
    BY <1>1, <1>3 DEF IInv
  <1>6. Relinking(s, F, t)
    BY <1>2, <1>5, RecoverKeeps
  <1>7. /\ Good(t) /\ t.table = s.table /\ t.disk = s.disk
        /\ \A g \in Files(s) : g \in Files(t) /\ InodeOf(t, g) = InodeOf(s, g)
    BY <1>6 DEF Relinking
  <1>8. Content(Now)' = Content(t) /\ Where' = Pos(t)
    BY <1>4, <1>7, BarNext DEF Good
  <1>9. Where' = Where
    BY <1>1, <1>7, <1>8, PosNow DEF Pos
  <1>10. \A g \in Files(s) : Contents(t, g) = Contents(s, g)
    BY <1>5, <1>7, FrameContents
  <1>11. /\ DOMAIN Content(Now) \subseteq DOMAIN Content(t)
         /\ \A g \in DOMAIN Content(Now) : Content(t)[g] = Content(Now)[g]
    BY <1>1, <1>7, <1>10 DEF Content
  <1>12. Store!Relink
    BY <1>4, <1>8, <1>9, <1>11, Zenon DEF Store!Relink, Silent, Store!Silent, Where
  <1>13. QED
    BY <1>12 DEF Store!Next

(* The command defragment: every file is there again, at its end, and as   *)
(* long as it was.                                                         *)
LEMMA DefragmentRefines ==
  ASSUME IInv, Defragment
  PROVE  Store!Next
  <1>1. PICK made : \E hit \in SUBSET (DOMAIN made.table) : Makes(made, hit)
    BY DefragmentMakes
  <1>2. PICK hit \in SUBSET (DOMAIN made.table) : Makes(made, hit)
    BY <1>1
  <1>3. PICK t : t = Dropped(made, hit)
    OBVIOUS
  <1>4. Drops(made, hit, t) /\ Good(t) /\ t.table = made.table
    BY <1>2, <1>3, MakesKeeps
  <1>5. PICK s : s = Now
    OBVIOUS
  <1>6. Good(made) /\ Restores(s, made) /\ Becomes(t)
    BY <1>2, <1>3, <1>5 DEF Makes
  <1>7. Silent /\ AllAccessible /\ Good(s)
    BY <1>5 DEF Defragment, IInv
  <1>8. Content(Now)' = Content(t) /\ Where' = Pos(t)
    BY <1>4, <1>6, BarNext DEF Good
  <1>9. Files(t) = Files(made) /\ \A g \in Files(made) : Contents(t, g) = Contents(made, g)
    BY <1>4, <1>6, FrameContent DEF Drops, KeepsBytes
  <1>10. Files(made) = Files(s) /\ DOMAIN made.table = Files(s)
    BY <1>6 DEF Restores
  <1>11. ASSUME NEW f \in Files(s)
         PROVE  /\ Len(Contents(t, f)) = Len(Contents(s, f))
                /\ t.table[f].pos = Len(Contents(s, f)) - 2
    <2>1. Sized(s, made, f)
      BY <1>6 DEF Restores
    <2>2. Len(Contents(made, f)) = SizeOf(s, f) /\ made.table[f].pos = SizeOf(s, f) - 2
      BY <2>1 DEF Sized
    <2>3. SizeOf(s, f) = Len(Contents(s, f))
      BY <1>7, ContentsAre DEF SizeOf, Mem
    <2>4. QED
      BY <1>4, <1>9, <1>10, <2>2, <2>3
  <1>12. /\ DOMAIN Content(Now) = Files(s) /\ \A f \in Files(s) : Content(Now)[f] = Contents(s, f)
         /\ DOMAIN Content(t) = Files(s) /\ \A f \in Files(s) : Content(t)[f] = Contents(t, f)
    BY <1>5, <1>9, <1>10 DEF Content
  <1>13. /\ DOMAIN Content(Now)' = DOMAIN Content(Now)
         /\ \A f \in DOMAIN Content(Now) : Len(Content(Now)'[f]) = Len(Content(Now)[f])
    BY <1>8, <1>11, <1>12
  <1>14. Where' = [f \in DOMAIN Content(Now) |-> Len(Content(Now)[f]) - 2]
    <2>1. DOMAIN t.table = Files(s)
      BY <1>4, <1>10
    <2>2. Pos(t) = [f \in Files(s) |-> t.table[f].pos]
      BY <2>1 DEF Pos
    <2>3. [f \in DOMAIN Content(Now) |-> Len(Content(Now)[f]) - 2]
            = [f \in Files(s) |-> Len(Contents(s, f)) - 2]
      BY <1>12
    <2>4. [f \in Files(s) |-> t.table[f].pos] = [f \in Files(s) |-> Len(Contents(s, f)) - 2]
      BY <1>11
    <2>5. QED
      BY <1>8, <2>2, <2>3, <2>4
  <1>15. \A f \in DOMAIN Content(Now) : Store!Accessible(f)
    <2>1. ASSUME NEW f \in DOMAIN Content(Now) PROVE Store!Accessible(f)
      <3>1. Position(f) >= 0
        BY <1>5, <1>7, <1>12, <2>1 DEF AllAccessible, Accessible
      <3>2. Store!Position(f) >= 0
        BY <3>1, StorePosition, PositionIs
      <3>3. QED
        BY <3>2, Zenon DEF Store!Accessible
    <2>2. QED
      BY <2>1
  <1>16. Store!Rebuild
    BY <1>7, <1>13, <1>14, <1>15, Zenon DEF Store!Rebuild, Silent, Store!Silent, Where
  <1>17. QED
    BY <1>16 DEF Store!Next

(* The empty disk is the empty store.                                      *)
LEMMA InitRefines == Init => Store!Init
  <1> SUFFICES ASSUME Init PROVE Store!Init
    OBVIOUS
  <1>1. PICK s : s = Now
    OBVIOUS
  <1>2. s.dir = <<>>
    BY <1>1, NowIs DEF Init
  <1>3. Files(s) = {}
    BY <1>2, FilesAre DEF Slots
  <1>4. DOMAIN Content(Now) = {}
    BY <1>1, <1>3 DEF Content
  <1>5. Content(Now) = [f \in {} |-> Contents(Now, f)]
    BY <1>1, <1>3, Zenon DEF Content
  <1>6. Content(Now) = <<>>
    BY <1>5
  <1>7. table = <<>> /\ DOMAIN <<>> = {}
    BY DEF Init
  <1>8. DOMAIN table = {}
    BY <1>7
  <1>9. Where = [f \in {} |-> table[f].pos]
    BY <1>8, Zenon DEF Where
  <1>10. Where = <<>>
    BY <1>9
  <1>11. out = <<>>
    BY DEF Init
  <1>12. QED
    BY <1>6, <1>10, <1>11, Zenon DEF Store!Init, Where

(* Every step is one of FileStore, or changes nothing it sees.             *)
LEMMA NextRefines == IInv /\ [Next]_vars => [Store!Next]_(Store!store)
  <1> SUFFICES ASSUME IInv, [Next]_vars PROVE [Store!Next]_(Store!store)
    OBVIOUS
  <1>1. ASSUME UNCHANGED vars PROVE UNCHANGED Store!store
    <2>1. Now' = Now /\ table' = table /\ out' = out
      BY <1>1 DEF vars, Now
    <2>2. Content(Now)' = Content(Now)
      BY <2>1
    <2>3. Where' = Where
      BY <2>1 DEF Where
    <2>4. QED
      BY <2>1, <2>2, <2>3, Zenon DEF Store!store, Where
  <1>2. ASSUME NEW f \in Name, NEW n \in Sizes, Create(f, n) PROVE Store!Next
    BY <1>2, CreateRefines
  <1>3. ASSUME NEW f \in Name, Rm(f) \/ CopyIn(f) PROVE Store!Next
    BY <1>3, RmRefines, CopyInRefines
  <1>4. ASSUME NEW f \in Name, NEW text \in Text, Write(f, text) PROVE Store!Next
    BY <1>4, WriteRefines
  <1>5. ASSUME NEW f \in FileName, Size(f) \/ Cat(f) \/ CatByPath(f) \/ CopyOut(f)
        PROVE  Store!Next
    BY <1>5, SizeRefines, CatRefines, CatByPathRefines, CopyOutRefines
  <1>6. ASSUME NEW f \in FileName, NEW n \in Sizes, Read(f, n) PROVE Store!Next
    BY <1>6, ReadRefines
  <1>7. ASSUME NEW f \in FileName, NEW p \in Offsets, Seek(f, p) PROVE Store!Next
    BY <1>7, SeekRefines
  <1>8. ASSUME FindFile PROVE Store!Next
    BY <1>8, FindFileRefines
  <1>9. ASSUME OpenAll PROVE Store!Next
    BY <1>9, OpenAllRefines
  <1>10. ASSUME Defragment PROVE Store!Next
    BY <1>10, DefragmentRefines
  <1>11. ASSUME Recover0 PROVE Store!Next
    BY <1>11, Recover0Refines
  <1>12. ASSUME Restart PROVE Store!Next
    BY <1>12, RestartRefines
  <1>13. Store!Next \/ UNCHANGED vars
    BY <1>2, <1>3, <1>4, <1>5, <1>6, <1>7, <1>8, <1>9, <1>10, <1>11, <1>12 DEF Next
  <1>14. QED
    BY <1>1, <1>13

(* The file commands keep FileStore's promises: a file is a sequence of    *)
(* bytes that a write changes where it says, and only there, that a read   *)
(* delivers from the position on, and that no command on another file      *)
(* touches; defragment has room for every file and keeps its length.       *)
THEOREM Implements == Spec => ImplementsFileStore
  BY InitKeeps, NextKeeps, InitRefines, NextRefines, PTL
  DEF Spec, ImplementsFileStore, Store!Spec

-----------------------------------------------------------------------------
(* What rm leaves in sectors that are free, and what recover(0) makes of   *)
(* it.                                                                     *)

\* The bytes to which the inode in sector i of the disk leads.
Left(s, i) == [k \in 1 .. s.disk[i].len |-> ByteAt(s.disk, s.disk[i], k - 1)]

\* The inode of a removed file and its sectors are free, and still hold the bytes b.
Remains(s, i, b) ==
  /\ i \in Sector \ s.used /\ s.disk[i] \in InodeRec /\ b = Left(s, i)
  /\ \A k \in 1 .. SectorsFor(s.disk[i].len) : s.disk[i].blocks[k] \notin s.used

Traced(s, gone) == \A i \in DOMAIN gone : Remains(s, i, gone[i])

\* A name recover(0) gives leads to the sector it was given for, and that is free.
Found(s) == \A i \in Sector : Recovered(i) \in Files(s) => InodeOf(s, Recovered(i)) = i /\ i \notin s.used

RInv == Traced(Now, removed) /\ Found(Now)

\* No user takes a name that recover(0) gives.
OwnNames == \A i \in Sector : Recovered(i) \notin Name

(* Bytes reached from two inodes that agree are the same.                  *)
LEMMA LeftAgrees ==
  ASSUME NEW s, NEW t, NEW i, s.disk[i] \in InodeRec, Agrees(s.disk, s.disk[i], t.disk, t.disk[i])
  PROVE  Left(t, i) = Left(s, i)
  <1>1. PICK x \in InodeRec : x = s.disk[i]
    OBVIOUS
  <1>2. PICK y : y = t.disk[i]
    OBVIOUS
  <1>3. Copies(s.disk, x, x.len, t.disk, y) /\ y.len = x.len
    BY <1>1, <1>2, AgreesCopies DEF Agrees
  <1>4. PICK n \in Nat : n = x.len
    BY <1>1, InodeFields
  <1>5. ASSUME NEW k \in 1 .. n PROVE ByteAt(t.disk, y, k - 1) = ByteAt(s.disk, x, k - 1)
    <2>1. k - 1 \in 0 .. n - 1
      OBVIOUS
    <2>2. QED
      BY <1>3, <1>4, <2>1 DEF Copies
  <1>6. Left(s, i) = [k \in 1 .. n |-> ByteAt(s.disk, x, k - 1)]
    BY <1>1, <1>4, Zenon DEF Left
  <1>7. Left(t, i) = [k \in 1 .. n |-> ByteAt(t.disk, y, k - 1)]
    BY <1>2, <1>3, <1>4, Zenon DEF Left
  <1>8. QED
    BY <1>5, <1>6, <1>7, Zenon

(* As long as no sector is taken, what was left in the free ones remains.  *)
LEMMA RemainsKeeps ==
  ASSUME NEW s, NEW t, t.used \subseteq s.used, \A j \in Sector \ s.used : t.disk[j] = s.disk[j],
         NEW i, NEW b, Remains(s, i, b)
  PROVE  Remains(t, i, b)
  <1>1. i \in Sector \ s.used /\ b = Left(s, i)
    BY DEF Remains
  <1>2. PICK x \in InodeRec : x = s.disk[i] /\ x = t.disk[i]
    BY <1>1 DEF Remains
  <1>3. \A k \in 1 .. SectorsFor(x.len) : x.blocks[k] \in Sector \ s.used
    <2>1. PICK n \in Nat : n = SectorsFor(x.len) /\ n <= Len(x.blocks)
      BY InodeFields, SectorsForType
    <2>2. \A k \in 1 .. n : k \in 1 .. Len(x.blocks)
      BY <2>1, InodeFields
    <2>3. \A k \in 1 .. n : x.blocks[k] \in Sector
      BY <2>2, InodeFields
    <2>4. QED
      BY <1>2, <2>1, <2>3 DEF Remains
  <1>4. Agrees(s.disk, x, t.disk, x)
    BY <1>3 DEF Agrees
  <1>5. Left(t, i) = Left(s, i)
    BY <1>2, <1>4, LeftAgrees
  <1>6. \A k \in 1 .. SectorsFor(t.disk[i].len) : t.disk[i].blocks[k] \notin t.used
    BY <1>2, <1>3
  <1>7. QED
    BY <1>1, <1>2, <1>5, <1>6 DEF Remains

(* The bytes of a file are those its inode on disk leads to.               *)
LEMMA LeftIs ==
  ASSUME NEW s, Good(s), NEW f \in Files(s), NEW i, i = InodeOf(s, f)
  PROVE  Contents(s, f) = Left(s, i)
  <1>1. PICK z \in InodeRec : z = s.disk[i]
    BY MemFacts
  <1>2. PICK x \in InodeRec : x = Mem(s, f) /\ Shrinks(z, x)
    BY <1>1, MemFacts
  <1>3. PICK d : d = s.disk
    OBVIOUS
  <1>4. Agrees(d, z, d, x)
    BY <1>2, ShrinksAgrees
  <1>5. Copies(d, z, z.len, d, x) /\ x.len = z.len
    BY <1>4, AgreesCopies DEF Agrees
  <1>6. PICK n \in Nat : n = z.len
    BY InodeFields
  <1>7. ASSUME NEW k \in 1 .. n PROVE ByteAt(d, x, k - 1) = ByteAt(d, z, k - 1)
    <2>1. k - 1 \in 0 .. n - 1
      OBVIOUS
    <2>2. QED
      BY <1>5, <1>6, <2>1 DEF Copies
  <1>8. Contents(s, f) = [k \in 1 .. n |-> ByteAt(d, x, k - 1)]
    BY <1>2, <1>3, <1>5, <1>6, Zenon DEF Contents, Mem
  <1>9. Left(s, i) = [k \in 1 .. n |-> ByteAt(d, z, k - 1)]
    BY <1>1, <1>3, <1>6, Zenon DEF Left
  <1>10. QED
    BY <1>7, <1>8, <1>9, Zenon

(* What rm removes remains.                                                *)
LEMMA GoneRemains ==
  ASSUME NEW s, Good(s), Clean(s), NEW f \in Files(s), NEW t, t = Gone(s, f)
  PROVE  Remains(t, InodeOf(s, f), Contents(s, f))
  <1>1. PICK i \in Sector : i = InodeOf(s, f)
    BY MemFacts
  <1>2. t.disk = s.disk /\ t.used = s.used \ Region(s, f)
    BY GoneKeeps
  <1>3. PICK z \in InodeRec : z = s.disk[i] /\ z = t.disk[i]
    BY <1>1, <1>2, MemFacts
  <1>4. Region(s, f) = {i} \cup {z.blocks[k] : k \in 1 .. SectorsFor(z.len)}
    BY <1>1, <1>3 DEF Region
  <1>5. Contents(s, f) = Left(t, i)
    BY <1>1, <1>2, LeftIs DEF Left
  <1>6. i \in Sector \ t.used /\ \A k \in 1 .. SectorsFor(z.len) : z.blocks[k] \notin t.used
    BY <1>2, <1>4
  <1>7. QED
    BY <1>1, <1>3, <1>5, <1>6 DEF Remains

-----------------------------------------------------------------------------
(* The commands that only look write nothing.                              *)

Unwritten == used' = used /\ disk' = disk /\ dir' = dir /\ removed' = removed

(* A step to a state with the same disk, map and directory.                *)
LEMMA FrameUnwritten ==
  ASSUME NEW t, Frame(Now, t), Becomes(t), Keeps
  PROVE  Unwritten
  BY NowIs DEF Frame, Becomes, Keeps, Unwritten

(* The commands size and seek.                                             *)
LEMMA SizeUnwritten ==
  ASSUME IInv, NEW f, Size(f)
  PROVE  Unwritten
  <1>1. PICK s : s = Now
    OBVIOUS
  <1>2. f \in Files(s) /\ Good(s) /\ Becomes(Opened(s, f)) /\ Keeps
    BY <1>1 DEF Size, Exists, IInv
  <1>3. Frame(s, Opened(s, f))
    BY <1>2, OpenedServes
  <1>4. QED
    BY <1>1, <1>2, <1>3, FrameUnwritten

(* A seek moves a position.                                                *)
LEMMA SeekUnwritten ==
  ASSUME IInv, NEW f, NEW p \in Offsets, Seek(f, p)
  PROVE  Unwritten
  <1>1. PICK s : s = Now
    OBVIOUS
  <1>2. PICK t : t = Moved(Opened(s, f), f, p)
    OBVIOUS
  <1>3. Good(s) /\ f \in Files(s) /\ p \in Int /\ Becomes(t) /\ Keeps
    BY <1>1, <1>2, FilesAssumption DEF IInv, Seek, Exists
  <1>4. Frame(s, t)
    BY <1>2, <1>3, SeekServes
  <1>5. QED
    BY <1>1, <1>3, <1>4, FrameUnwritten

(* Reading at a position.                                                  *)
LEMMA ReadsUnwritten ==
  ASSUME IInv, NEW f, NEW n \in Nat, Accessible(f), Becomes(ReadFrom(Now, f, n)), Keeps
  PROVE  Unwritten
  <1>1. PICK s : s = Now
    OBVIOUS
  <1>2. PICK t : t = ReadFrom(s, f, n)
    OBVIOUS
  <1>3. PICK F : F = freed
    OBVIOUS
  <1>4. /\ Good(s) /\ f \in Files(s) /\ Alive(s, F) /\ f \notin F
        /\ PositionIn(s, f) \in Nat
    BY <1>1, <1>3, PositionType, NowIs DEF IInv, Accessible, Exists
  <1>5. Frame(s, t)
    BY <1>2, <1>4, ReadFromServes
  <1>6. QED
    BY <1>1, <1>2, <1>5, FrameUnwritten

(* The commands read and copy_out.                                         *)
LEMMA ReadUnwritten ==
  ASSUME IInv, NEW f, NEW n \in Sizes, Read(f, n)
  PROVE  Unwritten
  <1>1. n \in Nat
    BY FilesAssumption
  <1>2. Accessible(f) /\ Becomes(ReadFrom(Now, f, n)) /\ Keeps
    BY DEF Read
  <1>3. QED
    BY <1>1, <1>2, ReadsUnwritten

(* copy_out reads as many bytes as the file has.                           *)
LEMMA CopyOutUnwritten ==
  ASSUME IInv, NEW f, CopyOut(f)
  PROVE  Unwritten
  <1>1. PICK n : n = SizeOf(Now, f)
    OBVIOUS
  <1>2. Good(Now) /\ f \in Files(Now)
    BY DEF IInv, CopyOut, Accessible, Exists
  <1>3. n \in Nat
    <2>1. PICK s : s = Now
      OBVIOUS
    <2>2. QED
      BY <1>1, <1>2, <2>1, SizeOfType
  <1>4. Accessible(f) /\ Becomes(ReadFrom(Now, f, n)) /\ Keeps
    BY <1>1 DEF CopyOut
  <1>5. QED
    BY <1>3, <1>4, ReadsUnwritten

(* The command cat.                                                        *)
LEMMA CatUnwritten ==
  ASSUME IInv, NEW f, Cat(f)
  PROVE  Unwritten
  <1>1. PICK s : s = Now
    OBVIOUS
  <1>2. PICK m : m = Moved(Opened(s, f), f, 0)
    OBVIOUS
  <1>3. PICK n : n = SizeOf(s, f)
    OBVIOUS
  <1>4. PICK r : r = ReadFrom(m, f, n)
    OBVIOUS
  <1>5. PICK t : t = IF f \in DOMAIN s.table THEN Moved(r, f, s.table[f].pos) ELSE Closed(r, f)
    OBVIOUS
  <1>6. PICK F : F = freed
    OBVIOUS
  <1>7. s.table = table
    BY <1>1, NowIs
  <1>8. Exists(f) /\ Becomes(t) /\ Keeps
    BY <1>1, <1>2, <1>3, <1>4, <1>5, <1>7, Zenon DEF Cat
  <1>9. Good(s) /\ Alive(s, F) /\ f \in Files(s) /\ f \notin F
    BY <1>1, <1>6, <1>7, <1>8 DEF IInv, Exists
  <1>10. Frame(s, t)
    BY <1>2, <1>3, <1>4, <1>5, <1>9, CatKeeps
  <1>11. QED
    BY <1>1, <1>8, <1>10, FrameUnwritten

(* The command find_file, and opening every file.                          *)
LEMMA FindFileUnwritten ==
  ASSUME IInv, FindFile
  PROVE  Unwritten
  <1>1. PICK s : s = Now
    OBVIOUS
  <1>2. PICK t : t = ReadAll(s)
    OBVIOUS
  <1>3. AllAccessible /\ Becomes(t) /\ Keeps
    BY <1>1, <1>2 DEF FindFile
  <1>4. freed = {}
    BY <1>3, AllExist DEF AllAccessible, Accessible
  <1>5. Good(s) /\ Alive(s, {})
    BY <1>1, <1>4 DEF IInv
  <1>6. \A g \in Files(s) : PositionIn(s, g) \in Nat
    BY <1>1, <1>3, PositionType DEF AllAccessible, Accessible
  <1>7. PICK q : q = Listing(s)
    OBVIOUS
  <1>8. Frame(s, t)
    BY <1>2, <1>5, <1>6, <1>7, ReadAllKeeps DEF ReadSome
  <1>9. QED
    BY <1>1, <1>3, <1>8, FrameUnwritten

(* Opening every file.                                                     *)
LEMMA OpenAllUnwritten ==
  ASSUME IInv, OpenAll
  PROVE  Unwritten
  <1>1. PICK s : s = Now
    OBVIOUS
  <1>2. PICK t : t = OpenedAll(s)
    OBVIOUS
  <1>3. PICK F : F = freed
    OBVIOUS
  <1>4. Becomes(t) /\ Keeps
    BY <1>1, <1>2 DEF OpenAll, OpenedAll
  <1>5. Good(s) /\ Alive(s, F)
    BY <1>1, <1>3, NowIs DEF IInv
  <1>6. Frame(s, t)
    BY <1>2, <1>5, OpenAllKeeps DEF OpenSome
  <1>7. QED
    BY <1>1, <1>4, <1>6, FrameUnwritten

-----------------------------------------------------------------------------
(* What was removed can be found until something is allocated.             *)

(* A command that only looks.                                              *)
LEMMA UnwrittenTraces ==
  ASSUME RInv, Unwritten
  PROVE  RInv'
  <1>1. PICK s : s = Now
    OBVIOUS
  <1>2. PICK t : t = Now'
    OBVIOUS
  <1>3. t.used = used' /\ t.disk = disk' /\ t.dir = dir'
    BY <1>2 DEF Now
  <1>4. t.used = s.used /\ t.disk = s.disk /\ t.dir = s.dir /\ removed' = removed
    BY <1>1, <1>3, NowIs DEF Unwritten
  <1>5. Files(t) = Files(s) /\ \A g : InodeOf(t, g) = InodeOf(s, g)
    BY <1>4, SameDir
  <1>6. Traced(t, removed)
    BY <1>1, <1>4, RemainsKeeps DEF RInv, Traced
  <1>7. Found(t)
    BY <1>1, <1>4, <1>5 DEF RInv, Found
  <1>8. Traced(Now', removed') /\ Found(Now')
    BY <1>2, <1>4, <1>6, <1>7
  <1>9. QED
    BY <1>8 DEF RInv

(* A step to t.                                                            *)
LEMMA BecomesTraces ==
  ASSUME NEW t \in State, Becomes(t), Traced(t, removed'), Found(t)
  PROVE  RInv'
  <1>1. Now' = t
    BY BecomesNow
  <1>2. Traced(Now', removed') /\ Found(Now')
    BY <1>1
  <1>3. QED
    BY <1>2 DEF RInv

(* Nothing is traced where nothing was removed.                            *)
LEMMA NothingTraced ==
  ASSUME NEW s
  PROVE  Traced(s, <<>>)
  <1>1. DOMAIN <<>> = {}
    OBVIOUS
  <1>2. QED
    BY <1>1 DEF Traced

(* On a clean disk no name is one of recover(0), and none comes in.        *)
LEMMA CleanFound ==
  ASSUME OwnNames, NEW s, Clean(s), Found(s), NEW t, Files(t) \subseteq Files(s) \cup Name
  PROVE  Found(t)
  <1>1. \A i \in Sector : Recovered(i) \notin Files(s)
    BY DEF Clean, Found
  <1>2. \A i \in Sector : Recovered(i) \notin Files(t)
    BY <1>1 DEF OwnNames
  <1>3. QED
    BY <1>2 DEF Found

(* The command create.                                                     *)
LEMMA CreateTraces ==
  ASSUME OwnNames, IInv, RInv, NEW f \in Name, NEW n \in Sizes, Create(f, n)
  PROVE  RInv'
  <1>1. PICK s : s = Now
    OBVIOUS
  <1>2. PICK t : t = Created(s, f, n)
    OBVIOUS
  <1>3. Good(s) /\ Clean(s) /\ Found(s)
    BY <1>1, CountsKeeps DEF IInv, RInv, Create, Changes
  <1>4. f \in FileName /\ n \in 0 .. MaxLength
    BY FilesAssumption, NameIsFileName
  <1>5. t \in State /\ Files(t) \subseteq Files(s) \cup Name
    BY <1>2, <1>3, <1>4, CreatedKeeps DEF Creates, Good
  <1>6. Becomes(t) /\ removed' = <<>>
    BY <1>1, <1>2 DEF Create
  <1>7. QED
    BY <1>3, <1>5, <1>6, CleanFound, NothingTraced, BecomesTraces

(* The command rm.                                                         *)
LEMMA RmTraces ==
  ASSUME OwnNames, IInv, RInv, NEW f, Rm(f)
  PROVE  RInv'
  <1>1. PICK s : s = Now
    OBVIOUS
  <1>2. PICK t : t = Gone(s, f)
    OBVIOUS
  <1>3. PICK gone : gone = removed
    OBVIOUS
  <1>4. PICK i : i = InodeOf(s, f)
    OBVIOUS
  <1>5. PICK b : b = Contents(s, f)
    OBVIOUS
  <1>6. Becomes(t) /\ removed' = With(gone, i, b) /\ Counts /\ f \in Files(s)
    BY <1>1, <1>2, <1>3, <1>4, <1>5 DEF Rm, Changes, Exists
  <1>7. Good(s) /\ Clean(s) /\ Found(s) /\ Traced(s, gone)
    BY <1>1, <1>3, <1>6, CountsKeeps DEF IInv, RInv
  <1>8. /\ t \in State /\ Files(t) \subseteq Files(s)
        /\ t.disk = s.disk /\ t.used \subseteq s.used
    BY <1>2, <1>6, <1>7, GoneKeeps DEF Good
  <1>9. Found(t)
    BY <1>7, <1>8, CleanFound
  <1>10. Remains(t, i, b)
    BY <1>2, <1>4, <1>5, <1>6, <1>7, GoneRemains
  <1>11. \A j \in DOMAIN gone : Remains(t, j, gone[j])
    BY <1>7, <1>8, RemainsKeeps DEF Traced
  <1>12. Traced(t, With(gone, i, b))
    <2>1. PICK w : w = With(gone, i, b)
      OBVIOUS
    <2>2. DOMAIN w = DOMAIN gone \cup {i} /\ \A j \in DOMAIN w : w[j] = IF j = i THEN b ELSE gone[j]
      BY <2>1 DEF With
    <2>3. \A j \in DOMAIN w : Remains(t, j, w[j])
      BY <1>10, <1>11, <2>2
    <2>4. QED
      BY <2>1, <2>3 DEF Traced
  <1>13. QED
    BY <1>6, <1>8, <1>9, <1>12, BecomesTraces

(* What the command write leaves.                                          *)
LEMMA WrittenOne ==
  ASSUME IInv, NEW f \in Name, NEW text \in Text, Write(f, text),
         NEW s, s = Now, NEW t, t = WroteTo(s, f, text \o Zeros(2))
  PROVE  Good(t) /\ Files(t) = Files(s) /\ Rests(s, t)
  <1>2. PICK bytes : bytes = text \o Zeros(2)
    OBVIOUS
  <1>4. Counts /\ Accessible(f) /\ Position(f) + Len(text) + 2 <= MaxLength
    BY DEF Write, Changes
  <1>5. PICK F : F = freed
    OBVIOUS
  <1>6. Good(s) /\ Clean(s) /\ F \subseteq DOMAIN s.table /\ Alive(s, F)
    BY <1>4, <1>5, CountsKeeps, NowIs DEF IInv
  <1>7. PICK p : p = PositionIn(s, f)
    OBVIOUS
  <1>8. f \in Files(s) /\ f \notin F /\ p >= 0 /\ p + Len(text) + 2 <= MaxLength
    BY <1>4, <1>5, <1>7, PositionIs DEF Accessible, Exists
  <1>9. p \in Nat
    <2>1. p \in Int
      <3>1. \A g \in DOMAIN s.table : s.table[g].pos \in Int
        BY <1>6, StateFields DEF Good, Handle
      <3>2. QED
        BY <1>7, <3>1 DEF PositionIn
    <2>2. QED
      BY <1>8, <2>1
  <1>10. PICK l \in Nat : l = Len(text)
    BY FilesAssumption
  <1>11. bytes \in Seq(Byte) /\ Len(bytes) = l + 2
    <2>1. PICK y \in Seq(Byte) : y = text /\ Len(y) = l
      BY <1>10, FilesAssumption, QuietFacts
    <2>2. PICK z \in Seq(Byte) : z = Zeros(2) /\ Len(z) = 2
      <3>1. Zeros(2) \in Seq(Byte) /\ Len(Zeros(2)) = 2
        BY QuietFacts DEF Zeros
      <3>2. QED
        BY <3>1, Zenon
    <2>3. y \o z \in Seq(Byte) /\ Len(y \o z) = l + 2
      <3>1. y \o z \in Seq(Byte) /\ Len(y \o z) = Len(y) + Len(z)
        BY ConcatProperties
      <3>2. QED
        BY <2>1, <2>2, <3>1, Zenon
    <2>4. QED
      BY <1>2, <2>1, <2>2, <2>3, Zenon
  <1>12. /\ PositionIn(s, f) \in Nat /\ PositionIn(s, f) + Len(bytes) <= MaxLength
         /\ PositionIn(s, f) + Len(bytes) = 0 => Mem(s, f).len = 0
    <2>1. p + (l + 2) <= MaxLength /\ p + (l + 2) # 0
      BY <1>8, <1>9, <1>10, FilesAssumption
    <2>2. QED
      BY <1>7, <1>9, <1>11, <2>1
  <1>13. QED
    <2>1. t = WroteTo(s, f, bytes)
      BY <1>2
    <2>2. f \in Files(s) /\ f \notin F
      BY <1>8
    <2>3. /\ Good(t) /\ Clean(t) /\ Files(t) = Files(s)
          /\ \A g : InodeOf(t, g) = InodeOf(s, g)
          /\ DOMAIN t.table = DOMAIN s.table \cup {f}
          /\ Alive(t, F) /\ Wrote(s, f, Terminated(bytes), t) /\ Rests(s, t)
      <3> QED BY <1>6, <1>11, <1>12, <2>1, <2>2, WroteToKeeps
    <2>4. QED
      BY <2>3

(* The command write.                                                      *)
LEMMA WriteTraces ==
  ASSUME OwnNames, IInv, RInv, NEW f \in Name, NEW text \in Text, Write(f, text)
  PROVE  RInv'
  <1>1. PICK s : s = Now
    OBVIOUS
  <1>2. PICK t : t = WroteTo(s, f, text \o Zeros(2))
    OBVIOUS
  <1>3. /\ Becomes(t) /\ Counts /\ removed' = IF used' = used THEN removed ELSE <<>>
    BY <1>1, <1>2 DEF Write, Changes
  <1>4. Good(s) /\ Clean(s) /\ Found(s) /\ Traced(s, removed)
    BY <1>1, <1>3, CountsKeeps DEF IInv, RInv
  <1>5. Good(t) /\ Files(t) = Files(s) /\ \A j \in Sector \ t.used : t.disk[j] = s.disk[j]
    BY <1>1, <1>2, WrittenOne DEF Rests
  <1>6. Found(t) /\ t \in State
    BY <1>4, <1>5, CleanFound DEF Good
  <1>7. CASE used' = used
    <2>1. t.used = s.used
      BY <1>1, <1>3, <1>7, NowIs DEF Becomes
    <2>2. Traced(t, removed)
      BY <1>4, <1>5, <2>1, RemainsKeeps DEF Traced
    <2>3. QED
      BY <1>3, <1>6, <1>7, <2>2, BecomesTraces
  <1>8. CASE used' # used
    BY <1>3, <1>6, <1>8, NothingTraced, BecomesTraces
  <1>9. QED
    BY <1>7, <1>8

(* cat of a path, and a new shell on the same disk.                        *)
LEMMA CatByPathUnwritten ==
  ASSUME NEW f, CatByPath(f)
  PROVE  Unwritten
  BY DEF CatByPath, Unwritten

(* Starting a new shell writes nothing.                                    *)
LEMMA RestartUnwritten == Restart => Unwritten
  BY DEF Restart, Unwritten

(* The command copy_in.                                                    *)
LEMMA CopyInTraces ==
  ASSUME OwnNames, IInv, RInv, NEW f \in Name, CopyIn(f)
  PROVE  RInv'
  <1>1. PICK s : s = Now
    OBVIOUS
  <1>2. PICK free : free = Cardinality(Free(s))
    OBVIOUS
  <1>3. PICK bytes : bytes = Host[f] \o <<Nul>>
    OBVIOUS
  <1>4. PICK fits : fits = SubSeq(bytes, 1, Min({free, Len(bytes)}))
    OBVIOUS
  <1>5. PICK made : made = Created(s, f, Len(fits))
    OBVIOUS
  <1>6. PICK t : t = IF f \in Files(made) THEN WroteTo(made, f, fits) ELSE made
    OBVIOUS
  <1>7. PICK F : F = freed
    OBVIOUS
  <1>8. /\ Counts /\ free > 0 /\ Position(f) >= 0 /\ f \notin F
        /\ Position(f) + Len(fits) <= MaxLength
        /\ Becomes(t) /\ removed' = <<>>
    BY <1>1, <1>2, <1>3, <1>4, <1>5, <1>6, <1>7, Zenon DEF CopyIn, Changes
  <1>9. Good(s) /\ Clean(s) /\ Found(s) /\ Alive(s, F)
    BY <1>1, <1>7, <1>8, CountsKeeps, NowIs DEF IInv, RInv
  <1>10. PositionIn(s, f) \in Nat /\ PositionIn(s, f) + Len(fits) <= MaxLength
    BY <1>1, <1>8, PositionIs, PositionType DEF IInv
  <1>11. free \in Nat
    <2>1. Free(s) \in SUBSET Sector
      BY DEF Free
    <2>2. QED
      BY <1>2, <2>1, SectorsFinite
  <1>12. fits \in Seq(Byte) /\ Len(fits) > 0
    BY <1>3, <1>4, <1>8, <1>11, FitsType
  <1>13. f \in FileName
    BY NameIsFileName
  <1>14. Good(t) /\ Files(t) \subseteq Files(s) \cup {f}
    <2>1. f \notin F
      BY <1>8
    <2>2. /\ Good(t) /\ Clean(t) /\ Alive(t, F)
          /\ DOMAIN s.table \subseteq DOMAIN t.table
          /\ Files(t) \subseteq Files(s) \cup {f}
      BY <1>5, <1>6, <1>9, <1>10, <1>12, <1>13, <2>1, CopyInKeeps
    <2>3. QED
      BY <2>2
  <1>15. Found(t) /\ t \in State
    <2>1. Files(t) \subseteq Files(s) \cup Name
      BY <1>14
    <2>2. QED
      BY <1>9, <1>14, <2>1, CleanFound DEF Good
  <1>16. QED
    BY <1>8, <1>15, NothingTraced, BecomesTraces

(* The command defragment.                                                 *)
LEMMA DefragmentTraces ==
  ASSUME OwnNames, IInv, RInv, Defragment
  PROVE  RInv'
  <1>1. PICK made : \E hit \in SUBSET (DOMAIN made.table) : Makes(made, hit)
    BY DefragmentMakes
  <1>2. PICK hit \in SUBSET (DOMAIN made.table) : Makes(made, hit)
    BY <1>1
  <1>3. PICK t : t = Dropped(made, hit)
    OBVIOUS
  <1>4. Drops(made, hit, t) /\ Good(t)
    BY <1>2, <1>3, MakesKeeps
  <1>5. PICK s : s = Now
    OBVIOUS
  <1>6. Restores(s, made) /\ Becomes(t)
    BY <1>2, <1>3, <1>5 DEF Makes
  <1>7. Counts /\ removed' = <<>>
    BY DEF Defragment
  <1>8. Clean(s) /\ Found(s)
    BY <1>5, <1>7, CountsKeeps DEF RInv
  <1>9. Files(t) = Files(s)
    BY <1>4, <1>6, FrameFiles DEF Drops, Restores
  <1>10. Found(t) /\ t \in State
    BY <1>4, <1>8, <1>9, CleanFound DEF Good
  <1>11. QED
    BY <1>6, <1>7, <1>10, NothingTraced, BecomesTraces

-----------------------------------------------------------------------------
(* What recover(0) finds.                                                  *)

(* Ascending leaves no sector out.                                         *)
LEMMA AscendingAll ==
  ASSUME NEW S \in SUBSET Sector, NEW i \in S
  PROVE  \E k \in 1 .. Len(Ascending(S)) : Ascending(S)[k] = i
  <1>1. PICK q \in Seq(S) : q = Ascending(S) /\ Len(q) = Cardinality(S) /\ Injective(q)
    BY AscendingFacts
  <1>2. PICK n \in Nat : n = Len(q)
    OBVIOUS
  <1>3. q \in [1 .. n -> S]
    BY <1>2
  <1>4. q \in Injection(1 .. n, S)
    BY <1>1, <1>2, <1>3 DEF Injective, Injection, IsInjective
  <1>5. Cardinality(1 .. n) = Cardinality(S)
    BY <1>1, <1>2, FS_Interval
  <1>6. q \in Surjection(1 .. n, S)
    BY <1>4, <1>5, SectorsFinite, FS_Injection
  <1>7. \E k \in 1 .. n : q[k] = i
    BY <1>6 DEF Surjection
  <1>8. QED
    BY <1>1, <1>2, <1>7

\* The directory of t has a name for what sector i of s holds, if it is an inode.
Linked(s, t, i) == s.disk[i].kind = "inode" => Recovered(i) \in Files(t)

(* Linking one freed inode: its name leads to it.                          *)
LEMMA RelinkedFinds ==
  ASSUME NEW s, Good(s), NEW i \in Sector \ s.used, Found(s), NEW t, t = Relinked(s, i)
  PROVE  Found(t) /\ Linked(s, t, i)
  <1>1. s \in State /\ i \in Sector \ System /\ Distinct(s.dir)
    BY DEF Good, Named
  <1>2. /\ s.disk \in [Sector -> Record] /\ s.inodes \in [Sector -> Record \cup {NotOpen}]
    BY <1>1, StateFields
  <1>3. PICK x \in Record : x = s.disk[i] /\ InMemory(s, i) = x
    BY <1>1, <1>2 DEF InMemory, Good, Spare
  <1>4. PICK m \in [Sector -> Record \cup {NotOpen}] : m = [s.inodes EXCEPT ![i] = x]
    BY <1>2
  <1>5. PICK o : o = PutInodes(s, m)
    OBVIOUS
  <1>6. o \in State /\ o.used = s.used /\ o.dir = s.dir
    BY <1>1, <1>5, WithInodes
  <1>7. o = [s EXCEPT !.inodes[i] = InMemory(s, i)]
    BY <1>3, <1>4, <1>5, Zenon DEF PutInodes
  <1>8. CASE x.kind = "inode" /\ Recovered(i) \notin Files(s)
    <2>1. PICK f \in FileName \ Files(s) : f = Recovered(i)
      BY <1>1, <1>8 DEF FileName
    <2>2. t = PutDir(o, Added(o.dir, f, i))
      <3>1. Relinked(s, i) = [o EXCEPT !.dir = Added(@, f, i)]
        BY <1>3, <1>7, <1>8, <2>1, Zenon DEF Relinked
      <3>2. QED
        BY <3>1, Zenon DEF PutDir
    <2>3. Added(o.dir, f, i) \in Seq({NoEntry} \cup DirEntry)
      <3>1. o.dir \in Seq({NoEntry} \cup DirEntry)
        BY <1>6, StateFields
      <3>2. QED
        BY <1>1, <3>1, AddedSlot
    <2>4. t.dir = Added(s.dir, f, i) /\ t.used = s.used
      BY <1>6, <2>2, <2>3, WithDir
    <2>5. Files(t) = Files(s) \cup {f}
      BY <1>1, <2>1, <2>4, AddedIs
    <2>6. ASSUME NEW g \in Files(t) PROVE InodeOf(t, g) = IF g = f THEN i ELSE InodeOf(s, g)
      BY <1>1, <2>1, <2>4, AddedInodes
    <2>7. ASSUME NEW j \in Sector, Recovered(j) \in Files(t)
          PROVE  InodeOf(t, Recovered(j)) = j /\ j \notin t.used
      <3>1. Recovered(j) = f => j = i
        BY <2>1 DEF Recovered
      <3>2. QED
        BY <1>1, <2>1, <2>4, <2>5, <2>6, <2>7, <3>1 DEF Found
    <2>8. QED
      BY <2>1, <2>5, <2>7 DEF Found, Linked
  <1>9. CASE ~(x.kind = "inode" /\ Recovered(i) \notin Files(s))
    <2>1. t = o
      BY <1>3, <1>7, <1>9, Zenon DEF Relinked
    <2>2. Files(t) = Files(s) /\ t.used = s.used /\ \A g : InodeOf(t, g) = InodeOf(s, g)
      BY <1>6, <2>1, SameDir
    <2>3. QED
      BY <1>3, <1>9, <2>2 DEF Found, Linked
  <1>10. QED
    BY <1>8, <1>9

\* What has been linked after the first k sectors of q.
LinkSome(s, q, k, t) ==
  /\ Relinking(s, DOMAIN s.table, t) /\ Found(t)
  /\ \A j \in 1 .. k : Linked(s, t, q[j])

(* recover(0) finds every inode that lies in a free sector.                *)
LEMMA RecoverLinks ==
  ASSUME NEW s, Good(s), Found(s), NEW t, t = FoldLeft(Relinked, s, Ascending(Free(s)))
  PROVE  /\ Relinking(s, DOMAIN s.table, t) /\ Found(t)
         /\ \A i \in Free(s) : Linked(s, t, i)
  <1>1. Free(s) \in SUBSET Sector /\ Free(s) = Sector \ s.used
    BY DEF Free
  <1>2. PICK q \in Seq(Free(s)) : q = Ascending(Free(s))
    BY <1>1, AscendingFacts
  <1>3. PICK n \in Nat : n = Len(q) /\ DOMAIN q = 1 .. n
    OBVIOUS
  <1>4. t = RelinkFold!Folded(0, s, q)
    BY <1>2 DEF FoldLeft, MapThenFoldSet, RelinkFold!Folded, RelinkFold!Max, Max, RelinkStep
  <1>5. PICK h : RelinkFold!Traces(0, s, q, n, h)
    BY <1>3, RelinkFold!FoldSteps
  <1>6. /\ h[0] = s
        /\ \A k \in 1 .. n : h[k] = RelinkStep(0, h[k - 1], q[k])
        /\ RelinkFold!Folded(0, s, q) = h[n]
    BY <1>5 DEF RelinkFold!Traces
  <1>7. PICK F : F = DOMAIN s.table
    OBVIOUS
  <1> DEFINE A == {k \in 0 .. n : LinkSome(s, q, k, h[k])}
  <1>8. 0 \in A
    <2>1. Relinking(s, F, s)
      BY <1>7 DEF Relinking, Alive
    <2>2. \A j : j \notin 1 .. 0
      OBVIOUS
    <2>3. QED
      BY <1>6, <1>7, <2>1, <2>2 DEF LinkSome
  <1>9. ASSUME NEW k \in 0 .. n - 1, k \in A PROVE k + 1 \in A
    <2>1. k + 1 \in 1 .. n /\ k + 1 \in 0 .. n /\ (k + 1) - 1 = k
      OBVIOUS
    <2>2. PICK u : u = h[k]
      OBVIOUS
    <2>3. PICK i : i = q[k + 1]
      OBVIOUS
    <2>4. PICK v : v = Relinked(u, i)
      OBVIOUS
    <2>5. h[k + 1] = v
      BY <1>6, <2>1, <2>2, <2>3, <2>4 DEF RelinkStep
    <2>6. Relinking(s, F, u) /\ Found(u) /\ \A j \in 1 .. k : Linked(s, u, q[j])
      BY <1>7, <1>9, <2>2 DEF LinkSome
    <2>7. Good(u) /\ u.used = s.used /\ u.table = s.table /\ Alive(u, F) /\ u.disk = s.disk
      BY <2>6 DEF Relinking
    <2>8. i \in Sector \ u.used
      BY <1>1, <1>3, <2>1, <2>3, <2>7
    <2>9. Relinking(u, F, v)
      BY <2>4, <2>7, <2>8, RelinkedKeeps
    <2>10. Relinking(s, F, v)
      BY <2>6, <2>9 DEF Relinking
    <2>11. Found(v) /\ Linked(u, v, i)
      BY <2>4, <2>6, <2>7, <2>8, RelinkedFinds
    <2>12. Files(u) \subseteq Files(v)
      BY <2>9 DEF Relinking
    <2>13. ASSUME NEW j \in 1 .. k + 1 PROVE Linked(s, v, q[j])
      <3>1. CASE j = k + 1
        BY <2>3, <2>7, <2>11, <3>1 DEF Linked
      <3>2. CASE j # k + 1
        <4>1. j \in 1 .. k
          BY <3>2
        <4>2. QED
          BY <2>6, <2>12, <4>1 DEF Linked
      <3>3. QED
        BY <3>1, <3>2
    <2>14. LinkSome(s, q, k + 1, v)
      BY <1>7, <2>10, <2>11, <2>13 DEF LinkSome
    <2>15. QED
      BY <2>1, <2>5, <2>14
  <1>10. LinkSome(s, q, n, h[n])
    <2> HIDE DEF A
    <2>1. \A k \in 0 .. n : k \in A
      BY <1>8, <1>9, NameFold!CountingUp
    <2>2. QED
      BY <2>1 DEF A
  <1>11. LinkSome(s, q, n, t)
    BY <1>4, <1>6, <1>10
  <1>12. ASSUME NEW i \in Free(s) PROVE Linked(s, t, i)
    <2>1. PICK k \in 1 .. Len(Ascending(Free(s))) : Ascending(Free(s))[k] = i
      BY <1>1, AscendingAll
    <2>2. k \in 1 .. n /\ q[k] = i
      BY <1>2, <1>3, <2>1
    <2>3. QED
      BY <1>11, <2>2 DEF LinkSome
  <1>13. QED
    BY <1>11, <1>12 DEF LinkSome

(* The command recover 0: what was removed is still traced, and every file *)
(* that is traced has come back, with its bytes.                           *)
LEMMA Recover0Traces ==
  ASSUME IInv, RInv, Recover0
  PROVE  /\ RInv'
         /\ \A i \in DOMAIN removed :
              Recovered(i) \in Files(Now)' /\ Content(Now)'[Recovered(i)] = removed[i]
  <1>1. PICK s : s = Now
    OBVIOUS
  <1>2. PICK t : t = FoldLeft(Relinked, s, Ascending(Free(s)))
    OBVIOUS
  <1>3. PICK gone : gone = removed
    OBVIOUS
  <1>4. Becomes(t) /\ removed' = gone
    BY <1>1, <1>2, <1>3 DEF Recover0, Keeps
  <1>5. Good(s) /\ Found(s) /\ Traced(s, gone)
    BY <1>1, <1>3 DEF IInv, RInv
  <1>6. /\ Relinking(s, DOMAIN s.table, t) /\ Found(t)
        /\ \A i \in Free(s) : Linked(s, t, i)
    BY <1>2, <1>5, RecoverLinks
  <1>7. Good(t) /\ t.used = s.used /\ t.disk = s.disk /\ t \in State
    BY <1>6 DEF Relinking, Good
  <1>8. Traced(t, gone)
    BY <1>5, <1>7, RemainsKeeps DEF Traced
  <1>9. RInv'
    BY <1>4, <1>6, <1>7, <1>8, BecomesTraces
  <1>10. Now' = t
    BY <1>4, <1>7, BecomesNow
  <1>11. Files(Now)' = Files(t) /\ Content(Now)' = Content(t)
    BY <1>10
  <1>12. ASSUME NEW i \in DOMAIN gone
         PROVE  Recovered(i) \in Files(t) /\ Content(t)[Recovered(i)] = gone[i]
    <2>1. PICK b : b = gone[i] /\ Remains(s, i, b) /\ Remains(t, i, b)
      BY <1>5, <1>8 DEF Traced
    <2>2. i \in Sector \ s.used /\ s.disk[i] \in InodeRec /\ b = Left(t, i)
      BY <2>1 DEF Remains
    <2>3. PICK f : f = Recovered(i)
      OBVIOUS
    <2>4. f \in Files(t)
      <3>1. Linked(s, t, i) /\ s.disk[i].kind = "inode"
        BY <1>6, <2>2, NotOpenIsNone DEF Free
      <3>2. QED
        BY <2>3, <3>1 DEF Linked
    <2>5. InodeOf(t, f) = i
      BY <1>6, <2>2, <2>3, <2>4 DEF Found
    <2>6. Contents(t, f) = b
      BY <1>7, <2>2, <2>4, <2>5, LeftIs
    <2>7. Content(t)[f] = Contents(t, f)
      BY <2>4 DEF Content
    <2>8. QED
      BY <2>1, <2>3, <2>4, <2>6, <2>7
  <1>13. QED
    BY <1>3, <1>9, <1>11, <1>12

(* On the empty disk nothing was removed.                                  *)
LEMMA InitTraces == Init => RInv
  <1> SUFFICES ASSUME Init PROVE RInv
    OBVIOUS
  <1>1. PICK s : s = Now
    OBVIOUS
  <1>2. s.dir = <<>>
    BY <1>1, NowIs DEF Init
  <1>3. Files(s) = {}
    BY <1>2, FilesAre DEF Slots
  <1>4. removed = <<>>
    BY DEF Init
  <1>5. Found(s) /\ Traced(s, removed)
    BY <1>3, <1>4, NothingTraced DEF Found
  <1>6. QED
    BY <1>1, <1>5 DEF RInv

(* Every step keeps the traces.                                            *)
LEMMA NextTraces ==
  ASSUME OwnNames, IInv, RInv, [Next]_vars
  PROVE  RInv'
  <1>1. ASSUME UNCHANGED vars PROVE RInv'
    <2>1. Unwritten
      BY <1>1 DEF vars, Unwritten
    <2>2. QED
      BY <2>1, UnwrittenTraces
  <1>2. ASSUME NEW f \in Name, NEW n \in Sizes, Create(f, n) PROVE RInv'
    BY <1>2, CreateTraces
  <1>3. ASSUME NEW f \in Name, Rm(f) \/ CopyIn(f) PROVE RInv'
    BY <1>3, RmTraces, CopyInTraces
  <1>4. ASSUME NEW f \in Name, NEW text \in Text, Write(f, text) PROVE RInv'
    BY <1>4, WriteTraces
  <1>5. ASSUME NEW f \in FileName, Size(f) \/ Cat(f) \/ CatByPath(f) \/ CopyOut(f)
        PROVE  RInv'
    <2>1. Unwritten
      BY <1>5, SizeUnwritten, CatUnwritten, CatByPathUnwritten, CopyOutUnwritten
    <2>2. QED
      BY <2>1, UnwrittenTraces
  <1>6. ASSUME NEW f \in FileName, NEW n \in Sizes, Read(f, n) PROVE RInv'
    BY <1>6, ReadUnwritten, UnwrittenTraces
  <1>7. ASSUME NEW f \in FileName, NEW p \in Offsets, Seek(f, p) PROVE RInv'
    BY <1>7, SeekUnwritten, UnwrittenTraces
  <1>8. ASSUME FindFile PROVE RInv'
    BY <1>8, FindFileUnwritten, UnwrittenTraces
  <1>9. ASSUME OpenAll PROVE RInv'
    BY <1>9, OpenAllUnwritten, UnwrittenTraces
  <1>10. ASSUME Defragment PROVE RInv'
    BY <1>10, DefragmentTraces
  <1>11. ASSUME Recover0 PROVE RInv'
    BY <1>11, Recover0Traces
  <1>12. ASSUME Restart PROVE RInv'
    BY <1>12, RestartUnwritten, UnwrittenTraces
  <1>13. QED
    BY <1>1, <1>2, <1>3, <1>4, <1>5, <1>6, <1>7, <1>8, <1>9, <1>10, <1>11, <1>12 DEF Next

(* recover(0) brings back, byte for byte, every file removed since the     *)
(* last allocation, unless a user has taken a name that recover(0) gives,  *)
(* which keeps it from linking the file under that name.                   *)
THEOREM RecoverFinds ==
  ASSUME OwnNames
  PROVE  Spec => RecoverFindsRemoved
  <1>1. Init => IInv /\ RInv
    BY InitKeeps, InitTraces
  <1>2. IInv /\ RInv /\ [Next]_vars => IInv' /\ RInv'
    BY NextKeeps, NextTraces
  <1>3. IInv /\ RInv /\ [Next]_vars =>
          [Recover0 => \A i \in DOMAIN removed :
             Recovered(i) \in Files(Now)' /\ Content(Now)'[Recovered(i)] = removed[i]]_vars
    BY Recover0Traces
  <1>4. QED
    BY <1>1, <1>2, <1>3, PTL DEF Spec, RecoverFindsRemoved

-----------------------------------------------------------------------------
(* What defragment leaves of a disk where no sector was lost.              *)

(* Blocks that follow each other in memory do so on disk, and the other    *)
(* way round.                                                              *)
LEMMA RunOnDisk ==
  ASSUME NEW z \in InodeRec, NEW x, Shrinks(z, x), Run(x), NEW y, Shrinks(z, y)
  PROVE  Run(y)
  <1>1. PICK w \in Nat : w = SectorsFor(z.len) /\ w <= Len(z.blocks)
    BY InodeFields, SectorsForType
  <1>2. PICK l \in Nat : l = Len(z.blocks)
    BY InodeFields
  <1>3. x.len = z.len /\ \A k \in 1 .. l : z.blocks[k] = x.blocks[k]
    BY <1>2 DEF Shrinks
  <1>4. ASSUME NEW k \in 1 .. w - 1 PROVE z.blocks[k + 1] = z.blocks[k] + 1
    <2>1. k \in 1 .. l /\ k + 1 \in 1 .. l
      BY <1>1, <1>2
    <2>2. x.blocks[k + 1] = x.blocks[k] + 1
      BY <1>1, <1>3 DEF Run
    <2>3. QED
      BY <1>3, <2>1, <2>2
  <1>5. Run(z)
    BY <1>1, <1>4 DEF Run
  <1>6. Begins(z, y) /\ y.len = z.len
    BY DEF Shrinks, Begins
  <1>7. QED
    BY <1>5, <1>6, RunKeeps

(* A file whose blocks follow each other is not counted as fragmented.     *)
LEMMA RunsAreWhole ==
  ASSUME NEW t, Good(t), \A f \in Files(t) : Run(Mem(t, f))
  PROVE  Fragmented(t) = {}
  <1>1. ASSUME NEW f \in Files(t), NEW k \in 1 .. SectorsFor(SizeOf(t, f)) - 1
        PROVE  LET blocks == InMemory(t, InodeOf(t, f)).blocks
               IN blocks[k + 1] - blocks[k] \in 1 - Gap .. Gap - 1
    <2>1. PICK x \in InodeRec : x = Mem(t, f)
      BY MemFacts
    <2>2. InMemory(t, InodeOf(t, f)) = x /\ SizeOf(t, f) = x.len
      BY <2>1 DEF Mem, SizeOf
    <2>3. PICK w \in Nat : w = SectorsFor(x.len) /\ w <= Len(x.blocks)
      BY InodeFields, SectorsForType
    <2>4. k \in 1 .. Len(x.blocks)
      <3>1. PICK l \in Nat : l = Len(x.blocks)
        BY InodeFields
      <3>2. k \in 1 .. l
        BY <1>1, <2>2, <2>3, <3>1
      <3>3. QED
        BY <3>1, <3>2
    <2>5. PICK b \in Int : b = x.blocks[k]
      <3>1. x.blocks[k] \in Sector
        BY <2>4, InodeFields
      <3>2. QED
        BY <3>1 DEF Sector
    <2>6. x.blocks[k + 1] = b + 1
      <3>1. k \in 1 .. w - 1
        BY <1>1, <2>2, <2>3
      <3>2. QED
        BY <2>1, <2>3, <2>5, <3>1 DEF Run
    <2>7. (b + 1) - b \in 1 - Gap .. Gap - 1
      BY FilesAssumption
    <2>8. QED
      BY <2>2, <2>5, <2>6, <2>7
  <1>2. QED
    BY <1>1 DEF Fragmented

(* The command defragment.                                                 *)
LEMMA DefragmentPacks ==
  ASSUME IInv, Defragment, NothingLost
  PROVE  Fragmented(Now)' = {}
  <1>1. PICK made : \E hit \in SUBSET (DOMAIN made.table) : Makes(made, hit)
    BY DefragmentMakes
  <1>2. PICK hit \in SUBSET (DOMAIN made.table) : Makes(made, hit)
    BY <1>1
  <1>3. PICK t : t = Dropped(made, hit)
    OBVIOUS
  <1>4. Drops(made, hit, t) /\ Good(t)
    BY <1>2, <1>3, MakesKeeps
  <1>5. Good(made) /\ Packed(made) /\ Becomes(t) /\ Frame(made, t) /\ t \in State
    BY <1>2, <1>3, <1>4 DEF Makes, Drops
  <1>6. ASSUME NEW f \in Files(t) PROVE Run(Mem(t, f))
    <2>1. f \in Files(made) /\ InodeOf(t, f) = InodeOf(made, f) /\ t.disk = made.disk
      BY <1>5, FrameFiles DEF Frame
    <2>2. PICK z \in InodeRec : z = made.disk[InodeOf(made, f)] /\ Shrinks(z, Mem(made, f))
      BY <1>5, <2>1, MemFacts
    <2>3. Shrinks(z, Mem(t, f))
      BY <1>4, <2>1, <2>2, MemFacts
    <2>4. Run(Mem(made, f))
      BY <1>5, <2>1 DEF Packed
    <2>5. QED
      BY <2>2, <2>3, <2>4, RunOnDisk
  <1>7. Fragmented(t) = {}
    BY <1>4, <1>6, RunsAreWhole
  <1>8. Now' = t
    BY <1>5, BecomesNow
  <1>9. QED
    BY <1>7, <1>8

(* On a disk where no sector is lost, defragment leaves no file that       *)
(* fragmentation_degree would count.                                       *)
THEOREM Compacts == Spec => DefragmentCompacts
  <1>1. IInv /\ [Next]_vars => [Fragmented(Now)' # {} /\ NothingLost => ~Defragment]_vars
    BY DefragmentPacks
  <1>2. QED
    BY InitKeeps, NextKeeps, <1>1, PTL DEF Spec, DefragmentCompacts
=============================================================================
