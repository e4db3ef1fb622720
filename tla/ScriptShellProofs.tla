-------------------------- MODULE ScriptShellProofs --------------------------
(***************************************************************************)
(* Proofs about ScriptShell for every number of slots, every set of        *)
(* statements whatever their words, every disk, and every number of files  *)
(* a process may have open: the types, and that the array of slots behaves *)
(* like the bounded map of VariableStore.                                  *)
(***************************************************************************)
EXTENDS ScriptShell, SequenceTheorems, FiniteSetTheorems, WellFoundedInduction, TLAPS

Slot == 1 .. Slots
SlotRecord == [var : Word, value : Seq(Word)]

(* shellmemory as a value: the slots of a name, the names it holds, and    *)
(* the map it stands for.                                                  *)
SlotsOf(m, x) == {k \in Slot : m[k].var = x}
NamesIn(m) == {m[k].var : k \in Slot} \ {None}
MapOf(m) == [x \in NamesIn(m) |-> m[Min(SlotsOf(m, x))].value]

Put(f, x, v) == [y \in DOMAIN f \cup {x} |-> IF y = x THEN v ELSE f[y]]

(* No two slots have the same name, unless they are free. *)
Unique(m) == \A j, k \in Slot : m[j].var = m[k].var /\ m[j].var # None => j = k

MemoryOK(m) == m \in [Slot -> SlotRecord] /\ Unique(m)

(* The inductive invariant. *)
ShellInv ==
  /\ MemoryOK(shellmemory)
  /\ DOMAIN disk \subseteq Word
  /\ \A f \in DOMAIN disk : disk[f].lines \in Seq(Typed)
  /\ scripts \in Seq(Seq(Typed \cup {Nothing})) /\ Len(scripts) <= OpenMax
  /\ command \in Seq(Word) /\ shown \in Seq(Word)
  /\ fate \in {"alive", "ended", "undefined"} /\ typed \in 0 .. MaxTyped

-----------------------------------------------------------------------------
(* The array of slots.                                                     *)

LEMMA LeastIs ==
  ASSUME NEW S \in SUBSET Nat, S # {}
  PROVE  Min(S) \in S /\ \A k \in S : Min(S) <= k
  <1>2. PICK x \in S : \A y \in S : ~(<<y, x>> \in OpToRel(<, Nat))
    BY NatLessThanWellFounded, WFMin, Zenon
  <1>3. \A y \in S : ~(y < x)
    BY <1>2 DEF OpToRel
  <1>4. \A y \in S : x <= y
    BY <1>3
  <1>. QED
    BY <1>4 DEF Min

LEMMA MinIs ==
  ASSUME NEW S \in SUBSET Slot, S # {}
  PROVE  Min(S) \in S /\ \A k \in S : Min(S) <= k
  <1>1. S \in SUBSET Nat
    BY ShellAssumption DEF Slot
  <1>. QED
    BY <1>1, LeastIs

(* A name that is stored has one slot. *)
LEMMA OneSlot ==
  ASSUME NEW m, MemoryOK(m), NEW k \in Slot, m[k].var # None
  PROVE  /\ SlotsOf(m, m[k].var) = {k} /\ Min(SlotsOf(m, m[k].var)) = k
         /\ m[k].var \in NamesIn(m) /\ MapOf(m)[m[k].var] = m[k].value
  <1>1. SlotsOf(m, m[k].var) = {k}
    BY DEF SlotsOf, MemoryOK, Unique
  <1>2. Min(SlotsOf(m, m[k].var)) = k
    BY <1>1, MinIs
  <1>3. m[k].var \in NamesIn(m)
    BY DEF NamesIn
  <1>. QED
    BY <1>1, <1>2, <1>3 DEF MapOf

(* A map is what its slots say. *)
LEMMA MapIs ==
  ASSUME NEW m, MemoryOK(m), NEW f, f = [x \in NamesIn(m) |-> f[x]],
         \A k \in Slot : m[k].var # None => f[m[k].var] = m[k].value
  PROVE  MapOf(m) = f
  <1>1. \A x \in NamesIn(m) : MapOf(m)[x] = f[x]
    <2>. SUFFICES ASSUME NEW x \in NamesIn(m)
                  PROVE  MapOf(m)[x] = f[x]
      OBVIOUS
    <2>1. PICK k \in Slot : m[k].var = x /\ x # None
      BY DEF NamesIn
    <2>2. QED
      BY <2>1, OneSlot
  <1>. QED
    BY <1>1 DEF MapOf

(* As many names as slots are stored exactly when no slot is free.         *)
LEMMA Capacity ==
  ASSUME NEW m, MemoryOK(m)
  PROVE  Cardinality(NamesIn(m)) < Slots <=> SlotsOf(m, None) # {}
  <1>. DEFINE g == [k \in Slot |-> m[k].var]
  <1>1. IsFiniteSet(Slot) /\ Cardinality(Slot) = Slots
    BY FS_Interval, ShellAssumption DEF Slot
  <1>2. CASE SlotsOf(m, None) = {}
    <2>1. \A k \in Slot : m[k].var # None
      BY <1>2 DEF SlotsOf
    <2>2. g \in Surjection(Slot, NamesIn(m))
      BY <2>1 DEF Surjection, NamesIn
    <2>3. g \in Injection(Slot, NamesIn(m))
      <3>1. IsInjective(g)
        BY <2>1 DEF IsInjective, MemoryOK, Unique
      <3>2. QED
        BY <2>2, <3>1 DEF Injection, Surjection
    <2>4. Cardinality(NamesIn(m)) = Slots
      BY <1>1, <2>2, <2>3, FS_Surjection
    <2>5. QED
      BY <1>2, <2>4, ShellAssumption
  <1>3. CASE SlotsOf(m, None) # {}
    <2>1. PICK e \in Slot : m[e].var = None
      BY <1>3 DEF SlotsOf
    <2>. DEFINE T == {k \in Slot : m[k].var # None}
                h == [k \in T |-> m[k].var]
    <2>2. T \in SUBSET (Slot \ {e})
      BY <2>1
    <2>3. IsFiniteSet(Slot \ {e}) /\ Cardinality(Slot \ {e}) = Slots - 1
      BY <1>1, FS_RemoveElement
    <2>4. IsFiniteSet(T) /\ Cardinality(T) <= Slots - 1 /\ Cardinality(T) \in Nat
      BY <2>2, <2>3, FS_Subset, FS_CardinalityType
    <2>5. h \in Surjection(T, NamesIn(m))
      BY DEF Surjection, NamesIn
    <2>6. Cardinality(NamesIn(m)) <= Cardinality(T) /\ Cardinality(NamesIn(m)) \in Nat
      BY <2>4, <2>5, FS_Surjection, FS_CardinalityType
    <2>7. QED
      BY <1>3, <2>4, <2>6, ShellAssumption
  <1>. QED
    BY <1>2, <1>3

LEMMA MapType ==
  ASSUME NEW m
  PROVE  MapOf(m) = [x \in DOMAIN MapOf(m) |-> MapOf(m)[x]] /\ DOMAIN MapOf(m) = NamesIn(m)
  BY DEF MapOf

(* mem_set_value: the bounded map takes the new value, unless it is full,  *)
(* and what is stored under the name of free slots disturbs no other.      *)
LEMMA SetValueIs ==
  ASSUME NEW m, MemoryOK(m), m = shellmemory, NEW x \in Word, NEW v \in Seq(Word),
         NEW m2, m2 = SetValue(x, v)
  PROVE  /\ MemoryOK(m2)
         /\ MapOf(m2) = IF x # None /\ (x \in NamesIn(m) \/ Cardinality(NamesIn(m)) < Slots)
                        THEN Put(MapOf(m), x, v) ELSE MapOf(m)
  <1>. DEFINE M == MapOf(m)
              M2 == Put(M, x, v)
  <1>0. /\ M = [y \in NamesIn(m) |-> M[y]] /\ M = [y \in DOMAIN M |-> M[y]]
        /\ DOMAIN M = NamesIn(m)
        /\ \A k \in Slot : m[k].var # None => M[m[k].var] = m[k].value
    BY MapType, OneSlot
  <1>1. Named(x) = SlotsOf(m, x) /\ Named(None) = SlotsOf(m, None)
    BY DEF Named, SlotsOf, Slot
  <1>2. m \in [Slot -> SlotRecord]
    BY DEF MemoryOK
  <1>3. /\ DOMAIN M2 = NamesIn(m) \cup {x} /\ M2[x] = v
        /\ \A y \in NamesIn(m) : y # x => M2[y] = M[y]
        /\ M2 = [y \in DOMAIN M2 |-> M2[y]]
    BY <1>0 DEF Put
  <1>. HIDE DEF M, M2
  <1>4. CASE SlotsOf(m, x) # {}
    <2>1. PICK k \in Slot : k = Min(SlotsOf(m, x)) /\ m[k].var = x
      BY <1>4, MinIs DEF SlotsOf
    <2>2. m2 = [m EXCEPT ![k].value = v]
      BY <1>1, <1>4, <2>1 DEF SetValue
    <2>3. /\ m2 \in [Slot -> SlotRecord]
          /\ \A j \in Slot : m2[j].var = m[j].var
          /\ \A j \in Slot \ {k} : m2[j].value = m[j].value
          /\ m2[k].value = v
      BY <1>2, <2>1, <2>2 DEF SlotRecord
    <2>4. MemoryOK(m2) /\ NamesIn(m2) = NamesIn(m)
      BY <2>3 DEF MemoryOK, Unique, NamesIn
    <2>5. CASE x = None
      <3>1. \A j \in Slot : m2[j].var # None => M[m2[j].var] = m2[j].value
        BY <1>0, <2>1, <2>3, <2>5
      <3>2. M = [y \in NamesIn(m2) |-> M[y]]
        BY <1>0, <2>4
      <3>3. MapOf(m2) = M
        BY <2>4, <3>1, <3>2, MapIs
      <3>4. QED
        BY <2>4, <2>5, <3>3 DEF M
    <2>6. CASE x # None
      <3>1. x \in NamesIn(m)
        BY <2>1, <2>6 DEF NamesIn
      <3>2. \A j \in Slot : m2[j].var # None => M2[m2[j].var] = m2[j].value
        <4>. SUFFICES ASSUME NEW j \in Slot, m2[j].var # None
                      PROVE  M2[m2[j].var] = m2[j].value
          OBVIOUS
        <4>1. CASE j = k
          BY <1>3, <2>1, <2>3, <4>1
        <4>2. CASE j # k
          <5>1. m[j].var # x /\ m[j].var \in NamesIn(m)
            BY <2>1, <2>3, <4>2 DEF MemoryOK, Unique, NamesIn
          <5>2. QED
            BY <1>0, <1>3, <2>3, <4>2, <5>1
        <4>3. QED
          BY <4>1, <4>2
      <3>3. M2 = [y \in NamesIn(m2) |-> M2[y]]
        BY <1>3, <2>4, <3>1
      <3>4. MapOf(m2) = M2
        BY <2>4, <3>2, <3>3, MapIs
      <3>5. QED
        BY <2>4, <2>6, <3>1, <3>4 DEF M, M2
    <2>7. QED
      BY <2>5, <2>6
  <1>5. CASE SlotsOf(m, x) = {} /\ SlotsOf(m, None) # {}
    <2>1. PICK k \in Slot : k = Min(SlotsOf(m, None)) /\ m[k].var = None
      BY <1>5, MinIs DEF SlotsOf
    <2>2. m2 = [m EXCEPT ![k] = [var |-> x, value |-> v]]
      BY <1>1, <1>5, <2>1 DEF SetValue
    <2>3. /\ m2 \in [Slot -> SlotRecord]
          /\ \A j \in Slot \ {k} : m2[j] = m[j]
          /\ m2[k].value = v /\ m2[k].var = x
      BY <1>2, <2>1, <2>2 DEF SlotRecord
    <2>4. \A j \in Slot : m[j].var # x
      BY <1>5 DEF SlotsOf
    <2>5. x # None
      BY <2>1, <2>4
    <2>6. Unique(m2)
      BY <2>3, <2>4 DEF MemoryOK, Unique
    <2>7. NamesIn(m2) = NamesIn(m) \cup {x}
      <3>1. ASSUME NEW j \in Slot, m[j].var # None
            PROVE  m[j].var \in NamesIn(m2)
        <4>1. m2[j].var = m[j].var
          BY <2>1, <2>3, <3>1
        <4>2. QED
          BY <3>1, <4>1 DEF NamesIn
      <3>2. x \in NamesIn(m2)
        BY <2>3, <2>5 DEF NamesIn
      <3>3. ASSUME NEW j \in Slot, m2[j].var # None
            PROVE  m2[j].var \in NamesIn(m) \cup {x}
        BY <2>3, <3>3 DEF NamesIn
      <3>4. QED
        BY <3>1, <3>2, <3>3 DEF NamesIn
    <2>8. \A j \in Slot : m2[j].var # None => M2[m2[j].var] = m2[j].value
      <3>. SUFFICES ASSUME NEW j \in Slot, m2[j].var # None
                    PROVE  M2[m2[j].var] = m2[j].value
        OBVIOUS
      <3>1. CASE j = k
        BY <1>3, <2>3, <3>1
      <3>2. CASE j # k
        <4>1. m2[j] = m[j] /\ m[j].var # x /\ m[j].var \in NamesIn(m)
          BY <2>3, <2>4, <3>2 DEF NamesIn
        <4>2. QED
          BY <1>0, <1>3, <4>1
      <3>3. QED
        BY <3>1, <3>2
    <2>9. MemoryOK(m2) /\ MapOf(m2) = M2
      <3>1. MemoryOK(m2)
        BY <2>3, <2>6 DEF MemoryOK
      <3>2. M2 = [y \in NamesIn(m2) |-> M2[y]]
        BY <1>3, <2>7
      <3>3. QED
        BY <2>8, <3>1, <3>2, MapIs
    <2>10. Cardinality(NamesIn(m)) < Slots
      BY <1>5, Capacity
    <2>11. QED
      BY <2>5, <2>9, <2>10 DEF M, M2
  <1>6. CASE SlotsOf(m, x) = {} /\ SlotsOf(m, None) = {}
    <2>1. m2 = m
      BY <1>1, <1>6 DEF SetValue
    <2>2. ~(Cardinality(NamesIn(m)) < Slots)
      BY <1>6, Capacity
    <2>3. x \notin NamesIn(m)
      BY <1>6 DEF NamesIn, SlotsOf
    <2>4. QED
      BY <2>1, <2>2, <2>3
  <1>. QED
    BY <1>4, <1>5, <1>6

(* mem_get_value: what the map says. *)
LEMMA GetValueIs ==
  ASSUME MemoryOK(shellmemory), NEW x
  PROVE  /\ x # None => GetValue(x) = IF x \in NamesIn(shellmemory) THEN MapOf(shellmemory)[x] ELSE NotThere
         /\ x \in NamesIn(shellmemory) => MapOf(shellmemory)[x] = GetValue(x)
         /\ GetValue(x) \in Seq(Word)
  <1>1. Named(x) = SlotsOf(shellmemory, x)
    BY DEF Named, SlotsOf, Slot
  <1>2. CASE Named(x) = {}
    <2>1. GetValue(x) = NotThere /\ x \notin NamesIn(shellmemory)
      BY <1>1, <1>2 DEF GetValue, SlotsOf, NamesIn
    <2>2. NotThere \in Seq(Word)
      BY ShellAssumption
    <2>3. QED
      BY <2>1, <2>2
  <1>3. CASE Named(x) # {}
    <2>1. PICK k \in Slot : k = Min(Named(x)) /\ shellmemory[k].var = x
      BY <1>1, <1>3, MinIs DEF SlotsOf
    <2>2. GetValue(x) = shellmemory[k].value
      BY <1>3, <2>1 DEF GetValue
    <2>3. shellmemory[k].value \in Seq(Word)
      BY DEF MemoryOK, SlotRecord
    <2>4. x \in NamesIn(shellmemory) <=> x # None
      BY <2>1 DEF NamesIn
    <2>5. x # None => MapOf(shellmemory)[x] = shellmemory[k].value
      BY <2>1, OneSlot
    <2>6. QED
      BY <2>2, <2>3, <2>4, <2>5
  <1>. QED
    BY <1>2, <1>3

LEMMA ValueIs ==
  MemoryOK(shellmemory) => [x \in Stored |-> GetValue(x)] = MapOf(shellmemory)
  <1>. SUFFICES ASSUME MemoryOK(shellmemory)
                PROVE  [x \in Stored |-> GetValue(x)] = MapOf(shellmemory)
    OBVIOUS
  <1>1. Stored = NamesIn(shellmemory)
    BY DEF Stored, NamesIn, Slot
  <1>2. \A x \in Stored : GetValue(x) = MapOf(shellmemory)[x]
    BY <1>1, GetValueIs
  <1>. QED
    BY <1>1, <1>2, MapType

-----------------------------------------------------------------------------
(* The types.                                                              *)

LEMMA WordsType ==
  ASSUME NEW st \in Typed \cup {Nothing}
  PROVE  Words(st) \in Seq(Word)
  <1>1. CASE st \in Typed
    BY <1>1, ShellAssumption
  <1>2. CASE st = Nothing
    <2>1. Words(st) = <<>>
      BY <1>2, ShellAssumption, Zenon
    <2>2. QED
      BY <2>1
  <1>. QED
    BY <1>1, <1>2

LEMMA WordOf ==
  ASSUME NEW s \in Seq(Word), NEW i \in 1 .. Len(s)
  PROVE  s[i] \in Word
  OBVIOUS

LEMMA ShellInvInit == Init => ShellInv
  <1>. SUFFICES ASSUME Init
                PROVE  ShellInv
    OBVIOUS
  <1>1. MemoryOK(shellmemory)
    <2>1. <<None>> \in Seq(Word) /\ None \in Word
      BY ShellAssumption
    <2>2. FreeSlot \in SlotRecord /\ FreeSlot.var = None
      BY <2>1 DEF FreeSlot, SlotRecord
    <2>3. shellmemory = [k \in Slot |-> FreeSlot]
      BY DEF Init, Slot
    <2>4. QED
      BY <2>2, <2>3 DEF MemoryOK, Unique
  <1>. QED
    BY <1>1, ShellAssumption DEF Init, ShellInv

LEMMA TypeStep ==
  ASSUME ShellInv, NEW st \in Typed, Type(st)
  PROVE  ShellInv'
  <1>1. Words(st) \in Seq(Word)
    BY ShellAssumption
  <1>. QED
    BY <1>1, ShellAssumption DEF Type, ShellInv, Between, Alive

LEMMA ScriptStep ==
  ASSUME ShellInv, NextLine \/ EndOfScript
  PROVE  ShellInv'
  <1>. DEFINE T == Seq(Typed \cup {Nothing})
              n == Len(scripts)
              rest == Last(scripts)
  <1>1. /\ scripts \in Seq(T) /\ scripts # <<>> /\ n \in Nat \ {0} /\ n <= OpenMax
        /\ Front(scripts) = SubSeq(scripts, 1, n - 1) /\ rest = scripts[n]
    BY DEF ShellInv, NextLine, EndOfScript, Front, Last
  <1>2. rest \in T
    BY <1>1
  <1>3. Front(scripts) \in Seq(T) /\ Len(Front(scripts)) = n - 1
    <2>1. \A i \in 1 .. n - 1 : scripts[i] \in T
      BY <1>1
    <2>2. n - 1 \in Nat
      BY <1>1
    <2>. HIDE DEF T, n
    <2>3. SubSeq(scripts, 1, n - 1) \in Seq(T) /\ Len(SubSeq(scripts, 1, n - 1)) = n - 1
      BY <2>1, <2>2, SubSeqProperties
    <2>4. QED
      BY <1>1, <2>3
  <1>. HIDE DEF T, n
  <1>4. CASE NextLine
    <2>1. rest # <<>> /\ Head(rest) \in Typed \cup {Nothing} /\ Tail(rest) \in T
      BY <1>2, <1>4 DEF NextLine, T
    <2>2. Words(Head(rest)) \in Seq(Word)
      BY <2>1, WordsType
    <2>3. scripts' = Append(Front(scripts), Tail(rest)) /\ command' = Words(Head(rest))
      BY <1>4 DEF NextLine
    <2>. HIDE DEF rest
    <2>4. scripts' \in Seq(T) /\ Len(scripts') = n
      BY <1>1, <1>3, <2>1, <2>3
    <2>5. QED
      BY <1>1, <1>4, <2>2, <2>3, <2>4 DEF NextLine, ShellInv, T
  <1>5. CASE EndOfScript
    <2>1. scripts' = Front(scripts)
      BY <1>5 DEF EndOfScript
    <2>2. Len(scripts') <= OpenMax
      BY <1>1, <1>3, <2>1, ShellAssumption
    <2>3. QED
      BY <1>3, <1>5, <2>1, <2>2 DEF EndOfScript, ShellInv, T
  <1>. QED
    BY <1>4, <1>5

LEMMA SetStep ==
  ASSUME ShellInv, Set
  PROVE  /\ ShellInv'
         /\ command[1] = "set" /\ Len(command) \in 3 .. 7 /\ shown' = shown
         /\ MapOf(shellmemory') =
              LET x == command[2]
              IN IF x # None /\ (x \in NamesIn(shellmemory) \/ Cardinality(NamesIn(shellmemory)) < Slots)
                 THEN Put(MapOf(shellmemory), x, SubSeq(command, 3, Len(command)))
                 ELSE MapOf(shellmemory)
  <1>. DEFINE n == Len(command)
              v == SubSeq(command, 3, n)
  <1>1. /\ command \in Seq(Word) /\ n \in 3 .. 7 /\ command[1] = "set"
        /\ shellmemory' = SetValue(command[2], v) /\ command' = <<>>
        /\ UNCHANGED <<disk, scripts, shown, fate, typed>>
    BY DEF ShellInv, Set, Is, Size, Done
  <1>2. command[2] \in Word /\ \A k \in 3 .. n : command[k] \in Word
    BY <1>1
  <1>3. v \in Seq(Word)
    <2>. HIDE DEF n
    <2>1. QED
      BY <1>1, <1>2, SubSeqProperties
  <1>4. PICK x, w, m, m2 : x = command[2] /\ w = v /\ m = shellmemory /\ m2 = shellmemory'
    OBVIOUS
  <1>5. /\ MemoryOK(m2)
        /\ MapOf(m2) = IF x # None /\ (x \in NamesIn(m) \/ Cardinality(NamesIn(m)) < Slots)
                       THEN Put(MapOf(m), x, w) ELSE MapOf(m)
    <2>. HIDE DEF v
    <2>1. MemoryOK(m) /\ x \in Word /\ w \in Seq(Word) /\ m2 = SetValue(x, w)
      BY <1>1, <1>2, <1>3, <1>4 DEF ShellInv
    <2>2. QED
      BY <1>4, <2>1, SetValueIs
  <1>6. ShellInv'
    BY <1>1, <1>4, <1>5 DEF ShellInv
  <1>. QED
    BY <1>1, <1>4, <1>5, <1>6

(* print and echo show what the map says. *)
LEMMA ShowStep ==
  ASSUME ShellInv, Display \/ Echo
  PROVE  /\ ShellInv' /\ shellmemory' = shellmemory
         /\ Len(command) = 2 /\ command[1] \in {"print", "echo"}
  <1>1. /\ command \in Seq(Word) /\ Len(command) = 2 /\ MemoryOK(shellmemory)
        /\ command' = <<>> /\ UNCHANGED <<shellmemory, disk, scripts, fate, typed>>
    BY DEF ShellInv, Display, Echo, Is, Size, Done
  <1>2. command[1] \in {"print", "echo"}
    BY DEF Display, Echo, Is
  <1>3. shown' \in Seq(Word)
    <2>1. command[2] \in Word
      BY <1>1, WordOf
    <2>2. <<command[2]>> \in Seq(Word)
      BY <2>1
    <2>3. CASE Display
      <3>1. shown' = GetValue(command[2])
        BY <2>3 DEF Display
      <3>2. QED
        BY <1>1, <3>1, GetValueIs
    <2>4. CASE Echo
      <3>1. shown' = IF command[2] \in DOMAIN Deref THEN GetValue(Deref[command[2]]) ELSE <<command[2]>>
        BY <2>4 DEF Echo, Value
      <3>2. QED
        BY <1>1, <2>2, <3>1, GetValueIs
    <2>5. QED
      BY <2>3, <2>4
  <1>4. ShellInv'
    BY <1>1, <1>3 DEF ShellInv
  <1>. QED
    BY <1>1, <1>2, <1>4

LEMMA RunStep ==
  ASSUME ShellInv, Run
  PROVE  ShellInv' /\ command[1] = "run"
  <1>. DEFINE T == Seq(Typed \cup {Nothing})
              file == disk[command[2]]
  <1>1. /\ scripts \in Seq(T) /\ Len(scripts) < OpenMax /\ file.lines \in Seq(Typed)
        /\ command[1] = "run" /\ command' = <<>>
        /\ UNCHANGED <<shellmemory, disk, shown, typed>>
        /\ \/ fate' = "undefined" /\ scripts' = scripts
           \/ scripts' = Append(scripts, Lines(file)) /\ fate' = fate
    BY DEF ShellInv, Run, Is, Available, Done
  <1>2. Lines(file) \in T
    BY <1>1 DEF Lines
  <1>. HIDE DEF T, file
  <1>3. scripts' \in Seq(T) /\ Len(scripts') <= OpenMax
    BY <1>1, <1>2, ShellAssumption
  <1>4. QED
    BY <1>1, <1>3 DEF ShellInv, T

LEMMA WriteStep ==
  ASSUME ShellInv, Touch \/ Copy
  PROVE  ShellInv' /\ command[1] \in {"my_touch", "my_cp"}
  <1>1. /\ command[1] \in {"my_touch", "my_cp"} /\ command' = <<>>
        /\ UNCHANGED <<shellmemory, scripts, shown, typed>>
        /\ fate' \in {fate, "undefined"}
    BY DEF Touch, Copy, Is, Done
  <1>2. DOMAIN disk' \subseteq Word /\ \A f \in DOMAIN disk' : disk'[f].lines \in Seq(Typed)
    <2>1. command \in Seq(Word) /\ Empty.lines \in Seq(Typed)
      BY DEF ShellInv, Empty
    <2>2. ASSUME NEW f \in Word, NEW file, file.lines \in Seq(Typed), disk' = Written(f, file)
          PROVE  DOMAIN disk' \subseteq Word /\ \A g \in DOMAIN disk' : disk'[g].lines \in Seq(Typed)
      BY <2>2 DEF Written, ShellInv
    <2>3. CASE disk' = disk
      BY <2>3 DEF ShellInv
    <2>4. CASE Touch /\ disk' # disk
      <3>1. disk' = Written(command[2], Empty)
        BY <2>4, Zenon DEF Touch
      <3>2. Len(command) = 2
        BY <2>4, Zenon DEF Touch, Size
      <3>3. command[2] \in Word
        <4>1. 2 \in 1 .. Len(command)
          BY <3>2
        <4>2. QED
          BY <2>1, <4>1, WordOf
      <3>4. QED
        BY <2>1, <2>2, <3>1, <3>3
    <2>5. CASE Copy /\ disk' # disk
      <3>. DEFINE file == IF command[3] = command[2] THEN Empty ELSE disk[command[2]]
      <3>1. disk' = Written(command[3], file) /\ Len(command) = 3 /\ command[2] \in DOMAIN disk
        BY <2>5 DEF Copy, Size
      <3>2. command[3] \in Word
        BY <2>1, <3>1, WordOf
      <3>3. file.lines \in Seq(Typed)
        BY <2>1, <3>1 DEF ShellInv
      <3>. HIDE DEF file
      <3>4. QED
        BY <2>2, <3>1, <3>2, <3>3
    <2>6. QED
      BY <2>3, <2>4, <2>5
  <1>3. ShellInv'
    BY <1>1, <1>2 DEF ShellInv
  <1>. QED
    BY <1>1, <1>3

(* A branch of an `if` is a part of its words. *)
LEMMA ChooseStep ==
  ASSUME ShellInv, Choose
  PROVE  ShellInv' /\ command[1] = "if" /\ UNCHANGED <<shellmemory, shown>>
  <1>. DEFINE n == Len(command)
              e == ElseIndex
  <1>1. /\ command \in Seq(Word) /\ n \in Nat /\ n >= 5 /\ command[1] = "if"
        /\ Elses # {} /\ command' = Branch
        /\ UNCHANGED <<shellmemory, disk, scripts, shown, fate, typed>>
    BY DEF ShellInv, Choose, Is, Size, Complete
  <1>2. e \in 6 .. n - 1
    <2>1. Elses \in SUBSET Nat /\ Elses \subseteq 6 .. n - 1
      BY <1>1 DEF Elses, Size
    <2>2. Min(Elses) \in Elses
      BY <1>1, <2>1, LeastIs
    <2>3. QED
      BY <2>1, <2>2 DEF ElseIndex
  <1>3. \A i \in 1 .. n : command[i] \in Word
    BY <1>1
  <1>4. command' \in Seq(Word)
    <2>1. /\ \A i \in 6 .. e - 1 : command[i] \in Word
          /\ \A i \in e + 1 .. n - 1 : command[i] \in Word
      BY <1>1, <1>2, <1>3
    <2>2. e - 1 \in Int /\ e + 1 \in Int /\ n - 1 \in Int
      BY <1>1, <1>2
    <2>3. command' \in {SubSeq(command, 6, e - 1), SubSeq(command, e + 1, n - 1)}
      BY <1>1 DEF Branch, Size
    <2>. HIDE DEF n, e
    <2>4. SubSeq(command, 6, e - 1) \in Seq(Word)
      BY <2>1, <2>2, SubSeqProperties
    <2>5. SubSeq(command, e + 1, n - 1) \in Seq(Word)
      BY <2>1, <2>2, SubSeqProperties
    <2>6. QED
      BY <2>3, <2>4, <2>5
  <1>5. ShellInv'
    BY <1>1, <1>4 DEF ShellInv
  <1>. QED
    BY <1>1, <1>5

LEMMA EndStep ==
  ASSUME ShellInv, Quit \/ ShortIf \/ BadCommand
  PROVE  ShellInv' /\ UNCHANGED <<shellmemory, shown>>
  <1>1. /\ UNCHANGED <<shellmemory, disk, scripts, shown, typed>>
        /\ command' = <<>> /\ fate' \in {fate, "ended", "undefined"}
    BY DEF Quit, ShortIf, BadCommand, Done
  <1>. QED
    BY <1>1 DEF ShellInv

LEMMA NextKeeps == ShellInv /\ [Next]_vars => ShellInv'
  <1>. SUFFICES ASSUME ShellInv, [Next]_vars
                PROVE  ShellInv'
    OBVIOUS
  <1>1. CASE Interpret
    BY <1>1, SetStep, ShowStep, RunStep, WriteStep, ChooseStep, EndStep DEF Interpret
  <1>2. CASE NextLine \/ EndOfScript
    BY <1>2, ScriptStep
  <1>3. CASE \E st \in Typed : Type(st)
    BY <1>3, TypeStep
  <1>4. CASE UNCHANGED vars
    BY <1>4 DEF ShellInv, vars
  <1>. QED
    BY <1>1, <1>2, <1>3, <1>4 DEF Next, Step

-----------------------------------------------------------------------------
(* The refinement.                                                         *)

LEMMA StoreInit == Init => Store!Init
  <1>. SUFFICES ASSUME Init
                PROVE  Store!Init
    OBVIOUS
  <1>1. Stored = {}
    BY DEF Init, Stored, FreeSlot
  <1>2. [x \in Stored |-> GetValue(x)] = <<>>
    BY <1>1
  <1>3. QED
    BY <1>2 DEF Init, Store!Init

(* The count of names in VariableStore is the usual one. *)
LEMMA SizeOf == \A S : Store!Cardinality(S) = Cardinality(S)
  BY Zenon DEF Store!Cardinality, Cardinality

(* The lengths of words that set and print can have are not too long. *)
LEMMA ShortEnough ==
  ASSUME Len(command) \in 3 .. 7 \/ Len(command) = 2
  PROVE  Size <= MaxArgs
  <1>1. CASE Len(command) \in 3 .. 7
    <2>1. PICK n \in 3 .. 7 : n = Size
      BY <1>1 DEF Size
    <2>2. n <= MaxArgs
      BY DEF MaxArgs
    <2>3. QED
      BY <2>1, <2>2
  <1>2. CASE Len(command) = 2
    BY <1>2 DEF Size, MaxArgs
  <1>. QED
    BY <1>1, <1>2

LEMMA StoreStep == ShellInv /\ [Next]_vars => [Store!Next]_<<command, [x \in Stored |-> GetValue(x)], shown>>
  <1>. SUFFICES ASSUME ShellInv, [Next]_vars
                PROVE  [Store!Next]_<<command, [x \in Stored |-> GetValue(x)], shown>>
    OBVIOUS
  <1>. DEFINE bar == [x \in Stored |-> GetValue(x)]
  <1>1. MemoryOK(shellmemory) /\ MemoryOK(shellmemory)' /\ command \in Seq(Word)
    BY NextKeeps DEF ShellInv
  <1>2. bar = MapOf(shellmemory) /\ DOMAIN bar = NamesIn(shellmemory)
    BY <1>1, ValueIs, MapType
  <1>3. bar' = MapOf(shellmemory)'
    <2>1. (MemoryOK(shellmemory) => bar = MapOf(shellmemory))'
      BY ValueIs, PTL
    <2>2. QED
      BY <1>1, <2>1
  <1>. HIDE DEF bar
  <1>4. shellmemory' = shellmemory => bar' = bar
    BY <1>2, <1>3
  <1>5. CASE Set
    <2>1. /\ command[1] = "set" /\ Len(command) \in 3 .. 7 /\ shown' = shown
          /\ bar' = IF command[2] # None /\ (command[2] \in DOMAIN bar \/ Cardinality(DOMAIN bar) < Slots)
                    THEN Put(bar, command[2], SubSeq(command, 3, Len(command))) ELSE bar
      BY <1>2, <1>3, <1>5, SetStep
    <2>2. Store!Set
      BY <2>1, SizeOf, Zenon DEF Store!Set, Store!Storable, Store!With, Put, bar
    <2>3. QED
      BY <2>2 DEF Store!Next
  <1>6. CASE Display
    <2>1. Len(command) = 2 /\ command[1] = "print" /\ bar' = bar /\ shown' = GetValue(command[2])
      BY <1>4, <1>6, ShowStep DEF Display, Is
    <2>2. command[2] # None => shown' = IF command[2] \in DOMAIN bar THEN bar[command[2]] ELSE NotThere
      BY <1>1, <1>2, <2>1, GetValueIs
    <2>3. Store!Display
      BY <2>1, <2>2, Zenon DEF Store!Display, Store!Of, bar
    <2>4. QED
      BY <2>3 DEF Store!Next
  <1>7. CASE Echo
    <2>1. Len(command) = 2 /\ command[1] = "echo" /\ bar' = bar /\ shown' = Value(command[2])
      BY <1>4, <1>7, ShowStep DEF Echo, Is
    <2>2. CASE command[2] \notin DOMAIN Deref
      <3>1. Store!Echo
        BY <2>1, <2>2, Zenon DEF Value, Store!Echo, bar
      <3>2. QED
        BY <3>1 DEF Store!Next
    <2>3. CASE command[2] \in DOMAIN Deref
      <3>. DEFINE x == Deref[command[2]]
      <3>1. shown' = GetValue(x)
        BY <2>1, <2>3 DEF Value
      <3>2. x # None => shown' = IF x \in DOMAIN bar THEN bar[x] ELSE NotThere
        BY <1>1, <1>2, <3>1, GetValueIs
      <3>3. Store!Echo
        BY <2>1, <2>3, <3>2, Zenon DEF Store!Echo, Store!Of, bar
      <3>4. QED
        BY <3>3 DEF Store!Next
    <2>4. QED
      BY <2>2, <2>3
  <1>8. ASSUME UNCHANGED <<shellmemory, shown>>,
               \/ command = <<>> \/ command[1] \notin {"set", "print", "echo"}
               \/ (command[1] = "set" /\ Len(command) \notin 3 .. 7)
               \/ (command[1] \in {"print", "echo"} /\ Len(command) # 2)
        PROVE  Store!Other
    BY <1>4, <1>8, Zenon DEF Store!Other, bar
  <1>9. CASE Run \/ Touch \/ Copy \/ Choose \/ Quit \/ ShortIf
    <2>1. UNCHANGED <<shellmemory, shown>>
      BY <1>9 DEF Run, Touch, Copy, Choose, Quit, ShortIf
    <2>2. command[1] \notin {"set", "print", "echo"}
      BY <1>9 DEF Run, Touch, Copy, Choose, Quit, ShortIf, Is
    <2>3. QED
      BY <1>8, <2>1, <2>2 DEF Store!Next
  <1>10. CASE BadCommand
    <2>1. UNCHANGED <<shellmemory, shown>> /\ ~Understood
      BY <1>10 DEF BadCommand
    <2>2. ~(command[1] = "set" /\ Len(command) \in 3 .. 7)
      BY <2>1, ShortEnough, Zenon DEF Understood, Size
    <2>3. ~(command[1] \in {"print", "echo"} /\ Len(command) = 2)
      BY <2>1, ShortEnough, Zenon DEF Understood, Size
    <2>4. QED
      BY <1>8, <2>1, <2>2, <2>3 DEF Store!Next
  <1>11. CASE NextLine \/ EndOfScript \/ \E st \in Typed : Type(st)
    <2>1. UNCHANGED <<shellmemory, shown>> /\ command = <<>>
      BY <1>11 DEF NextLine, EndOfScript, Type, Between
    <2>2. QED
      BY <1>8, <2>1 DEF Store!Next
  <1>12. CASE UNCHANGED vars
    BY <1>4, <1>12 DEF vars, bar
  <1>. QED
    BY <1>5, <1>6, <1>7, <1>9, <1>10, <1>11, <1>12 DEF Next, Step, Interpret

-----------------------------------------------------------------------------
(* The theorems.                                                           *)

(* The inductive invariant holds always. *)
THEOREM ShellInvariant == Spec => []ShellInv
  BY ShellInvInit, NextKeeps, PTL DEF Spec

(* Whatever words are typed or read from scripts, the slots of the memory, *)
(* the files and the words in the interpreter keep their types, and the    *)
(* scripts that run never hold more files than the process may have open.  *)
THEOREM ShellTypes == Spec => []TypeOK
  <1>1. ShellInv => TypeOK
    <2>. SUFFICES ASSUME ShellInv
                  PROVE  TypeOK
      OBVIOUS
    <2>1. \A k \in 1 .. Slots : shellmemory[k].var \in Word /\ shellmemory[k].value \in Seq(Word)
      BY DEF ShellInv, MemoryOK, SlotRecord, Slot
    <2>2. \A k \in DOMAIN scripts : scripts[k] \in Seq(Typed \cup {Nothing})
      BY DEF ShellInv
    <2>. QED
      BY <2>1, <2>2 DEF ShellInv, TypeOK
  <1>. QED
    BY <1>1, ShellInvariant, PTL

(* The array of slots implements the bounded map: whatever is set, printed *)
(* and echoed, and however scripts nest, a name has the value it was last  *)
(* given, and a new name is ignored exactly when every slot is taken.      *)
THEOREM StoresVariables == Spec => ImplementsVariables
  BY ShellInvariant, StoreInit, StoreStep, PTL DEF Spec, ImplementsVariables, Store!Spec
===============================================================================
