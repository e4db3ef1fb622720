--------------------------- MODULE InodeStoreProofs ---------------------------
(***************************************************************************)
(* Proofs about the inodes of assignment 3: the sectors of all files are   *)
(* disjoint and marked used, the inode in memory agrees with the one on    *)
(* the disk, and a file holds only what was written to it.                 *)
(***************************************************************************)
EXTENDS InodeStore, FiniteSetTheorems, SequenceTheorems, WellFoundedInduction, TLAPS

Block == 0 .. Direct + PerTable + PerTable * PerTable - 1
Index == 0 .. PerTable - 1

-----------------------------------------------------------------------------
(* The shape of an inode.                                                  *)

(* Division finds the two entries on the way to a doubly indirect block    *)
(* (inode_reserve_indirect, byte_to_sector).                               *)
LEMMA Division ==
  ASSUME NEW P \in Nat \ {0}, NEW n \in Nat
  PROVE n \div P \in Nat /\ n % P \in 0 .. P - 1 /\ n = P * (n \div P) + (n % P)
  OBVIOUS

LEMMA NextMultiple ==
  ASSUME NEW P \in Nat \ {0}, NEW a \in Nat, NEW b \in Nat, a < b
  PROVE P * a + P <= P * b
  <1>1. P * b - P * a = P * (b - a)
    OBVIOUS
  <1>2. P * (b - a) >= P
    OBVIOUS
  <1>3. QED BY <1>1, <1>2

(* The quotient of a number below P * P names one of P tables. *)
LEMMA SmallQuotient ==
  ASSUME NEW P \in Nat \ {0}, NEW n \in Nat, n < P * P
  PROVE n \div P < P
  BY Division, NextMultiple

LEMMA DivisionUnique ==
  ASSUME NEW P \in Nat \ {0}, NEW k \in Nat, NEW l \in 0 .. P - 1
  PROVE (P * k + l) \div P = k /\ (P * k + l) % P = l
  <1>1. P * k + l \in Nat
    OBVIOUS
  <1>2. QED BY <1>1, Division, NextMultiple

(* The table above a node of the second and of the third level. *)
LEMMA UpForm ==
  ASSUME NEW x, NEW y, NEW z
  PROVE Up(<<x, y, z>>) = <<x, y>> /\ Up(<<x, y>>) = <<x>>
  <1> DEFINE S == {x, y, z}
             u == SubSeq(<<x, y, z>>, 1, 2)
             v == SubSeq(<<x, y>>, 1, 1)
             long == <<x, y, z>>
             middle == <<x, y>>
             short == <<x>>
  <1>1. /\ Len(<<x, y, z>>) = 3 /\ Len(<<x, y>>) = 2 /\ Len(<<x>>) = 1
        /\ long \in Seq(S) /\ middle \in Seq(S) /\ short \in Seq(S)
    OBVIOUS
  <1>2. /\ long[1] = x /\ long[2] = y /\ middle[1] = x /\ middle[2] = y /\ short[1] = x
    OBVIOUS
  <1>3. /\ u \in Seq(S) /\ Len(u) = 2 /\ u[1] = long[1] /\ u[2] = long[2]
    BY <1>1, SubSeqProperties, SMTT(20)
  <1>4. /\ v \in Seq(S) /\ Len(v) = 1 /\ v[1] = middle[1]
    BY <1>1, SubSeqProperties, SMTT(20)
  <1>5. Len(middle) = 2 /\ Len(short) = 1
    BY <1>1
  <1> HIDE DEF u, v, long, middle, short
  <1>6. u = middle
    BY <1>1, <1>2, <1>3, <1>5, SeqEqual
  <1>7. v = short
    BY <1>1, <1>2, <1>4, <1>5, SeqEqual
  <1> QED BY <1>1, <1>6, <1>7 DEF Up, u, v, middle, short

(* A leaf and the way to it, for each of the three kinds of blocks. *)
DirectAt(i) == /\ i < Direct /\ Leaf(i) = <<"direct", i>>
               /\ Way(i) = <<<<"direct", i>>>>
IndirectAt(i, k) == /\ i = Direct + k /\ Leaf(i) = <<"indirect", k>>
                    /\ Way(i) = <<<<"indirect">>, <<"indirect", k>>>>
DoublyAt(i, k, l) == /\ i = Direct + PerTable + (PerTable * k + l) /\ Leaf(i) = <<"doubly", k, l>>
                     /\ Way(i) = <<<<"doubly">>, <<"doubly", k>>, <<"doubly", k, l>>>>

LEMMA DirectLeaf ==
  ASSUME NEW i \in 0 .. Direct - 1
  PROVE i \in Block /\ DirectAt(i)
  <1> USE InodeAssumption
  <1>1. i \in Block
    <2>1. PerTable * PerTable \in Nat
      OBVIOUS
    <2>2. QED BY <2>1 DEF Block
  <1>2. Leaf(i) = <<"direct", i>>
    BY DEF Leaf
  <1>3. Leaf(i)[1] = "direct"
    BY <1>2
  <1>4. Way(i) = <<Leaf(i)>>
    BY <1>3 DEF Way
  <1> QED BY <1>1, <1>2, <1>4 DEF DirectAt

LEMMA IndirectLeaf ==
  ASSUME NEW k \in Index
  PROVE Direct + k \in Block /\ IndirectAt(Direct + k, k)
  <1> USE InodeAssumption
  <1> DEFINE i == Direct + k
  <1>1. i \in Block
    <2>1. PerTable * PerTable \in Nat
      OBVIOUS
    <2>2. QED BY <2>1 DEF Block, Index
  <1>2. ~(i < Direct) /\ i < Direct + PerTable /\ i - Direct = k
    BY DEF Index
  <1>3. Leaf(i) = <<"indirect", k>>
    BY <1>2 DEF Leaf
  <1>4. Leaf(i)[1] = "indirect"
    BY <1>3
  <1>5. Way(i) = <<<<"indirect">>, Leaf(i)>>
    BY <1>4 DEF Way
  <1> QED BY <1>1, <1>3, <1>5 DEF IndirectAt

LEMMA DoublyLeaf ==
  ASSUME NEW k \in Index, NEW l \in Index
  PROVE /\ Direct + PerTable + (PerTable * k + l) \in Block
        /\ DoublyAt(Direct + PerTable + (PerTable * k + l), k, l)
  <1> USE InodeAssumption
  <1> DEFINE d == PerTable * k + l
             i == Direct + PerTable + d
  <1>1. d \in Nat /\ d < PerTable * PerTable
    <2>1. k \in Nat /\ k < PerTable /\ l < PerTable /\ l \in Nat
      BY DEF Index
    <2>2. PerTable * k \in Nat
      BY <2>1
    <2>3. PerTable * k + PerTable <= PerTable * PerTable
      BY <2>1, NextMultiple
    <2>4. QED BY <2>1, <2>2, <2>3
  <1>2. d \div PerTable = k /\ d % PerTable = l
    BY DivisionUnique DEF Index
  <1> HIDE DEF d
  <1>3. i \in Block
    <2>1. PerTable * PerTable \in Nat
      OBVIOUS
    <2>2. QED BY <2>1, <1>1 DEF Block
  <1>4. ~(i < Direct) /\ ~(i < Direct + PerTable) /\ i - Direct - PerTable = d
    BY <1>1
  <1>5. Leaf(i) = <<"doubly", k, l>>
    BY <1>2, <1>4 DEF Leaf
  <1>6. Leaf(i)[1] = "doubly" /\ Leaf(i)[2] = k
    BY <1>5
  <1>7. Way(i) = <<<<"doubly">>, <<"doubly", k>>, Leaf(i)>>
    BY <1>6 DEF Way
  <1> QED BY <1>3, <1>5, <1>7 DEF DoublyAt, d

LEMMA BlockForm ==
  ASSUME NEW i \in Block
  PROVE \/ DirectAt(i)
        \/ \E k \in Index : IndirectAt(i, k)
        \/ \E k \in Index, l \in Index : DoublyAt(i, k, l)
  <1> USE InodeAssumption
  <1>0. PerTable * PerTable \in Nat /\ i \in Nat /\ i < Direct + PerTable + PerTable * PerTable
    BY DEF Block
  <1>1. CASE i < Direct
    <2>1. i \in 0 .. Direct - 1
      BY <1>0, <1>1
    <2>2. QED BY <2>1, DirectLeaf
  <1>2. CASE ~(i < Direct) /\ i < Direct + PerTable
    <2>1. i - Direct \in Index /\ i = Direct + (i - Direct)
      BY <1>0, <1>2 DEF Index
    <2>2. QED BY <2>1, IndirectLeaf
  <1>3. CASE ~(i < Direct + PerTable)
    <2> DEFINE d == i - Direct - PerTable
    <2>1. d \in Nat /\ d < PerTable * PerTable
      BY <1>0, <1>3
    <2>2. i = Direct + PerTable + d
      BY <1>0
    <2> HIDE DEF d
    <2>3. d \div PerTable \in Index
      <3>1. d \div PerTable \in Nat
        BY <2>1, Division
      <3>2. d \div PerTable < PerTable
        BY <2>1, SmallQuotient
      <3>3. QED BY <3>1, <3>2 DEF Index
    <2>4. d % PerTable \in Index
      BY <2>1, Division DEF Index
    <2>5. d = PerTable * (d \div PerTable) + (d % PerTable)
      BY <2>1, Division
    <2>6. DoublyAt(i, d \div PerTable, d % PerTable)
      BY <2>2, <2>3, <2>4, <2>5, DoublyLeaf
    <2>7. QED BY <2>3, <2>4, <2>6
  <1> QED BY <1>1, <1>2, <1>3

(* The six forms of a node, and what each of them is. *)
RootForm(node) == \/ \E i \in 0 .. Direct - 1 : node = <<"direct", i>>
                  \/ node = <<"indirect">> \/ node = <<"doubly">>
LowerForm(node) == \/ \E k \in Index : node = <<"indirect", k>>
                   \/ \E k \in Index : node = <<"doubly", k>>
                   \/ \E k \in Index, l \in Index : node = <<"doubly", k, l>>
TableForm(node) == \/ node = <<"indirect">> \/ node = <<"doubly">>
                   \/ \E k \in Index : node = <<"doubly", k>>

LEMMA Members ==
  /\ \A i \in 0 .. Direct - 1 : <<"direct", i>> \in Node
  /\ <<"indirect">> \in Node /\ <<"doubly">> \in Node
  /\ \A k \in Index : <<"indirect", k>> \in Node /\ <<"doubly", k>> \in Node
  /\ \A k \in Index, l \in Index : <<"doubly", k, l>> \in Node
  <1> USE InodeAssumption
  <1>1. ASSUME NEW i \in Block, NEW k \in 1 .. Len(Way(i))
        PROVE Way(i)[k] \in Node
    BY <1>1 DEF Node, Block
  <1>2. ASSUME NEW i \in 0 .. Direct - 1
        PROVE <<"direct", i>> \in Node
    <2>1. i \in Block /\ Way(i) = <<<<"direct", i>>>>
      BY DirectLeaf DEF DirectAt
    <2>2. Len(Way(i)) = 1 /\ Way(i)[1] = <<"direct", i>>
      BY <2>1
    <2>3. QED BY <1>1, <2>1, <2>2
  <1>3. ASSUME NEW k \in Index
        PROVE <<"indirect">> \in Node /\ <<"indirect", k>> \in Node
    <2> DEFINE i == Direct + k
    <2>1. i \in Block /\ Way(i) = <<<<"indirect">>, <<"indirect", k>>>>
      BY IndirectLeaf DEF IndirectAt
    <2> HIDE DEF i
    <2>2. Len(Way(i)) = 2 /\ Way(i)[1] = <<"indirect">> /\ Way(i)[2] = <<"indirect", k>>
      BY <2>1
    <2>3. QED BY <1>1, <2>1, <2>2
  <1>4. ASSUME NEW k \in Index, NEW l \in Index
        PROVE <<"doubly">> \in Node /\ <<"doubly", k>> \in Node /\ <<"doubly", k, l>> \in Node
    <2> DEFINE i == Direct + PerTable + (PerTable * k + l)
    <2>1. i \in Block /\ Way(i) = <<<<"doubly">>, <<"doubly", k>>, <<"doubly", k, l>>>>
      BY DoublyLeaf DEF DoublyAt
    <2> HIDE DEF i
    <2>2. /\ Len(Way(i)) = 3 /\ Way(i)[1] = <<"doubly">> /\ Way(i)[2] = <<"doubly", k>>
          /\ Way(i)[3] = <<"doubly", k, l>>
      BY <2>1
    <2>3. Way(i)[1] \in Node /\ Way(i)[2] \in Node /\ Way(i)[3] \in Node
      <3>1. 1 \in 1 .. Len(Way(i)) /\ 2 \in 1 .. Len(Way(i)) /\ 3 \in 1 .. Len(Way(i))
        BY <2>2
      <3>2. QED BY <1>1, <2>1, <3>1, Zenon
    <2>4. QED BY <2>2, <2>3, Zenon
  <1>5. 0 \in Index
    BY DEF Index
  <1> QED BY <1>2, <1>3, <1>4, <1>5

LEMMA NodeForm ==
  ASSUME NEW node
  PROVE /\ node \in Node <=> RootForm(node) \/ LowerForm(node)
        /\ RootForm(node) => ~LowerForm(node)
        /\ TableForm(node) => RootForm(node) \/ LowerForm(node)
  <1>1. ASSUME node \in Node
        PROVE RootForm(node) \/ LowerForm(node)
    <2>0. PICK i \in Block : node \in {Way(i)[k] : k \in 1 .. Len(Way(i))}
      BY <1>1, Zenon DEF Node, Block
    <2>1. PICK k \in 1 .. Len(Way(i)) : node = Way(i)[k]
      BY <2>0
    <2>2. CASE DirectAt(i)
      <3>1. i \in 0 .. Direct - 1
        BY <2>2, InodeAssumption DEF DirectAt, Block
      <3>2. node = <<"direct", i>>
        BY <2>1, <2>2 DEF DirectAt
      <3>3. QED BY <3>1, <3>2 DEF RootForm
    <2>3. ASSUME NEW j \in Index, IndirectAt(i, j)
          PROVE RootForm(node) \/ LowerForm(node)
      <3>1. node = <<"indirect">> \/ node = <<"indirect", j>>
        BY <2>1, <2>3 DEF IndirectAt
      <3>2. QED BY <3>1 DEF RootForm, LowerForm
    <2>4. ASSUME NEW j \in Index, NEW l \in Index, DoublyAt(i, j, l)
          PROVE RootForm(node) \/ LowerForm(node)
      <3>1. node = <<"doubly">> \/ node = <<"doubly", j>> \/ node = <<"doubly", j, l>>
        BY <2>1, <2>4 DEF DoublyAt
      <3>2. QED BY <3>1 DEF RootForm, LowerForm
    <2> QED BY <2>2, <2>3, <2>4, BlockForm
  <1>2. ASSUME RootForm(node) \/ LowerForm(node)
        PROVE node \in Node
    BY <1>2, Members DEF RootForm, LowerForm
  <1>3. RootForm(node) => ~LowerForm(node)
    BY DEF RootForm, LowerForm
  <1>4. TableForm(node) => RootForm(node) \/ LowerForm(node)
    BY DEF RootForm, LowerForm, TableForm
  <1> QED BY <1>1, <1>2, <1>3, <1>4

LEMMA RootTableForm ==
  ASSUME NEW node
  PROVE /\ node \in Root <=> RootForm(node)
        /\ node \in Table <=> TableForm(node)
        /\ node \in Node \ Root <=> LowerForm(node)
  <1>1. ASSUME RootForm(node)
        PROVE node \in Root
    <2>1. Len(node) = 1 \/ node[1] = "direct"
      BY <1>1 DEF RootForm
    <2>2. QED BY <1>1, <2>1, NodeForm DEF Root
  <1>2. ASSUME node \in Root
        PROVE RootForm(node)
    <2>1. ASSUME LowerForm(node)
          PROVE Len(node) # 1 /\ node[1] # "direct"
      BY <2>1 DEF LowerForm
    <2>2. QED BY <1>2, <2>1, NodeForm DEF Root
  <1>3. ASSUME TableForm(node)
        PROVE node \in Table
    <2>1. node \in {<<"indirect">>, <<"doubly">>} \/ (node[1] = "doubly" /\ Len(node) = 2)
      BY <1>3 DEF TableForm
    <2>2. QED BY <1>3, <2>1, NodeForm DEF Table
  <1>4. ASSUME node \in Table
        PROVE TableForm(node)
    <2>1. ASSUME node[1] = "doubly", Len(node) = 2, RootForm(node) \/ LowerForm(node)
          PROVE \E k \in Index : node = <<"doubly", k>>
      BY <2>1 DEF RootForm, LowerForm
    <2>2. QED BY <1>4, <2>1, NodeForm DEF Table, TableForm
  <1> QED BY <1>1, <1>2, <1>3, <1>4, NodeForm

-----------------------------------------------------------------------------
(* What the proofs use of the shape of an inode from here on: a way leads  *)
(* through tables from the root to a leaf; every node below the root is    *)
(* one entry of the table above it; a table has one node at each entry.    *)
GoodWay(i) ==
  /\ Len(Way(i)) \in 1 .. 3
  /\ \A k \in 1 .. Len(Way(i)) : Way(i)[k] \in Node
  /\ Way(i)[1] \in Root
  /\ \A k \in 2 .. Len(Way(i)) : Way(i)[k] \notin Root /\ Up(Way(i)[k]) = Way(i)[k - 1]
  /\ \A k \in 1 .. Len(Way(i)) - 1 : Way(i)[k] \in Table
  /\ Way(i)[Len(Way(i))] = Leaf(i)
  /\ Leaf(i) \notin Table
  /\ \A j, k \in 1 .. Len(Way(i)) : Way(i)[j] = Way(i)[k] => j = k

LEMMA WayFacts ==
  ASSUME NEW i \in Block
  PROVE GoodWay(i)
  <1>1. CASE DirectAt(i)
    <2>1. /\ Len(Way(i)) = 1 /\ Way(i)[1] = <<"direct", i>> /\ Leaf(i) = <<"direct", i>>
      BY <1>1 DEF DirectAt
    <2>2. i \in 0 .. Direct - 1
      BY <1>1, InodeAssumption DEF DirectAt, Block
    <2>3. RootForm(<<"direct", i>>) /\ ~TableForm(<<"direct", i>>)
      BY <2>2 DEF RootForm, TableForm
    <2>4. Way(i)[1] \in Root /\ Leaf(i) \notin Table /\ Way(i)[1] \in Node
      BY <2>1, <2>3, RootTableForm, NodeForm
    <2>5. QED BY <2>1, <2>4 DEF GoodWay
  <1>2. ASSUME NEW j \in Index, IndirectAt(i, j)
        PROVE GoodWay(i)
    <2>1. /\ Len(Way(i)) = 2 /\ Way(i)[1] = <<"indirect">> /\ Way(i)[2] = <<"indirect", j>>
          /\ Leaf(i) = <<"indirect", j>>
      BY <1>2 DEF IndirectAt
    <2>2. /\ RootForm(<<"indirect">>) /\ TableForm(<<"indirect">>)
          /\ LowerForm(<<"indirect", j>>) /\ ~TableForm(<<"indirect", j>>)
      BY DEF RootForm, TableForm, LowerForm
    <2>3. /\ Way(i)[1] \in Root /\ Way(i)[1] \in Node /\ Way(i)[1] \in Table
          /\ Way(i)[2] \in Node /\ Way(i)[2] \notin Root /\ Leaf(i) \notin Table
      BY <2>1, <2>2, RootTableForm, NodeForm
    <2>4. Up(Way(i)[2]) = Way(i)[1] /\ Way(i)[2] # Way(i)[1] /\ Way(i)[2] = Leaf(i)
      <3>1. Up(<<"indirect", j>>) = <<"indirect">>
        BY UpForm
      <3>2. <<"indirect", j>> # <<"indirect">>
        OBVIOUS
      <3>3. QED BY <2>1, <3>1, <3>2
    <2>5. QED BY <2>1, <2>3, <2>4 DEF GoodWay
  <1>3. ASSUME NEW j \in Index, NEW l \in Index, DoublyAt(i, j, l)
        PROVE GoodWay(i)
    <2>1. /\ Len(Way(i)) = 3 /\ Way(i)[1] = <<"doubly">> /\ Way(i)[2] = <<"doubly", j>>
          /\ Way(i)[3] = <<"doubly", j, l>> /\ Leaf(i) = <<"doubly", j, l>>
      BY <1>3 DEF DoublyAt
    <2>2. /\ RootForm(<<"doubly">>) /\ TableForm(<<"doubly">>)
          /\ LowerForm(<<"doubly", j>>) /\ TableForm(<<"doubly", j>>)
          /\ LowerForm(<<"doubly", j, l>>) /\ ~TableForm(<<"doubly", j, l>>)
      BY DEF RootForm, TableForm, LowerForm
    <2>3. /\ Way(i)[1] \in Root /\ Way(i)[1] \in Node /\ Way(i)[1] \in Table
          /\ Way(i)[2] \in Node /\ Way(i)[2] \notin Root /\ Way(i)[2] \in Table
          /\ Way(i)[3] \in Node /\ Way(i)[3] \notin Root /\ Leaf(i) \notin Table
      BY <2>1, <2>2, RootTableForm, NodeForm
    <2>4. /\ Up(Way(i)[2]) = Way(i)[1] /\ Up(Way(i)[3]) = Way(i)[2] /\ Way(i)[3] = Leaf(i)
          /\ Way(i)[1] # Way(i)[2] /\ Way(i)[1] # Way(i)[3] /\ Way(i)[2] # Way(i)[3]
      BY <2>1, UpForm
    <2>5. Len(Way(i)) = 3
      BY <2>1
    <2>6. /\ \A k \in 1 .. 3 : k = 1 \/ k = 2 \/ k = 3
          /\ \A k \in 2 .. 3 : k = 2 \/ k = 3
          /\ \A k \in 1 .. 2 : k = 1 \/ k = 2
      OBVIOUS
    <2>7. QED BY <2>3, <2>4, <2>5, <2>6 DEF GoodWay
  <1> QED BY <1>1, <1>2, <1>3, BlockForm

LEMMA NodeFacts ==
  ASSUME NEW node \in Node
  PROVE /\ \E i \in Block : OnWay(node, i)
        /\ node \in Table \/ \E i \in Block : node = Leaf(i)
        /\ node \notin Root =>
             /\ Up(node) \in Table /\ Up(node) # node
             /\ node \in Children(Up(node)) /\ Slot(node) \in Index
             /\ Up(node) \notin Root => Up(Up(node)) \in Root
  <1>1. PICK i \in Block : node \in {Way(i)[k] : k \in 1 .. Len(Way(i))}
    BY Zenon DEF Node, Block
  <1>2. PICK k \in 1 .. Len(Way(i)) : node = Way(i)[k]
    BY <1>1
  <1>3. GoodWay(i)
    BY WayFacts
  <1>4. OnWay(node, i)
    BY <1>2 DEF OnWay
  <1>5. node \in Table \/ node = Leaf(i)
    BY <1>2, <1>3 DEF GoodWay
  <1>6. ASSUME node \notin Root
        PROVE /\ Up(node) \in Table /\ Up(node) # node
              /\ Up(node) \notin Root => Up(Up(node)) \in Root
    <2>1. k \in 2 .. Len(Way(i))
      BY <1>2, <1>3, <1>6 DEF GoodWay
    <2>2. Up(node) = Way(i)[k - 1] /\ k - 1 \in 1 .. Len(Way(i)) - 1
      BY <1>2, <1>3, <2>1 DEF GoodWay
    <2>3. Up(node) \in Table /\ Up(node) # node
      BY <1>2, <1>3, <2>1, <2>2 DEF GoodWay
    <2>4. ASSUME Up(node) \notin Root
          PROVE Up(Up(node)) \in Root
      <3>1. k = 3
        <4>1. Len(Way(i)) \in 1 .. 3 /\ Way(i)[1] \in Root
          BY <1>3, Zenon DEF GoodWay
        <4>2. Way(i)[k - 1] \notin Root
          BY <2>2, <2>4, Zenon
        <4>3. PICK n : n = k - 1
          OBVIOUS
        <4>4. n # 1
          BY <4>1, <4>2, <4>3, Zenon
        <4>5. k \in 2 .. 3
          <5>1. PICK depth : depth = Len(Way(i))
            OBVIOUS
          <5>2. depth \in 1 .. 3 /\ k \in 2 .. depth
            BY <2>1, <4>1, <5>1, Zenon
          <5>3. QED
            BY <5>2
        <4>6. QED
          BY <4>3, <4>4, <4>5
      <3>2. 2 \in 2 .. Len(Way(i))
        BY <2>1, <3>1, <1>3 DEF GoodWay
      <3>3. Up(Way(i)[2]) = Way(i)[1]
        BY <1>3, <3>2 DEF GoodWay
      <3>4. QED BY <1>3, <2>2, <3>1, <3>3 DEF GoodWay
    <2>5. QED BY <2>3, <2>4
  <1>7. ASSUME node \notin Root
        PROVE node \in Children(Up(node)) /\ Slot(node) \in Index
    <2>1. LowerForm(node)
      BY <1>7, RootTableForm
    <2>2. /\ \A j : Slot(<<"indirect", j>>) = j /\ Slot(<<"doubly", j>>) = j
          /\ \A j, l : Slot(<<"doubly", j, l>>) = l
      BY DEF Slot
    <2>3. Slot(node) \in Index
      BY <2>1, <2>2 DEF LowerForm
    <2>4. QED BY <1>7, <2>3 DEF Children
  <1> QED BY <1>4, <1>5, <1>6, <1>7

LEMMA TableFacts ==
  ASSUME NEW table \in Table
  PROVE /\ table \in Node
        /\ \A i \in Block : table # Leaf(i)
        /\ \A c \in Children(table) :
             c \in Node /\ c \notin Root /\ Up(c) = table /\ Slot(c) \in Index
        /\ \A b, c \in Children(table) : Slot(b) = Slot(c) => b = c
        /\ \A k \in Index : \E c \in Children(table) : Slot(c) = k
  <1>1. table \in Node
    BY DEF Table
  <1>2. \A i \in Block : table # Leaf(i)
    BY WayFacts DEF GoodWay
  <1>3. ASSUME NEW c \in Children(table)
        PROVE c \in Node /\ c \notin Root /\ Up(c) = table /\ Slot(c) \in Index
    BY <1>3, NodeFacts DEF Children
  <1>4. ASSUME NEW b \in Children(table)
        PROVE \/ \E k \in Index : b = <<"indirect", k>> /\ table = <<"indirect">> /\ Slot(b) = k
              \/ \E k \in Index : b = <<"doubly", k>> /\ table = <<"doubly">> /\ Slot(b) = k
              \/ \E k \in Index, l \in Index :
                   b = <<"doubly", k, l>> /\ table = <<"doubly", k>> /\ Slot(b) = l
    <2>1. LowerForm(b) /\ Up(b) = table
      BY <1>3, <1>4, RootTableForm
    <2>2. CASE \E k \in Index : b = <<"indirect", k>>
      <3>1. PICK k \in Index : b = <<"indirect", k>>
        BY <2>2
      <3>2. Up(b) = <<"indirect">> /\ Slot(b) = k
        BY <3>1, UpForm DEF Slot
      <3>3. QED BY <2>1, <3>1, <3>2
    <2>3. CASE \E k \in Index : b = <<"doubly", k>>
      <3>1. PICK k \in Index : b = <<"doubly", k>>
        BY <2>3
      <3>2. Up(b) = <<"doubly">> /\ Slot(b) = k
        BY <3>1, UpForm DEF Slot
      <3>3. QED BY <2>1, <3>1, <3>2
    <2>4. CASE \E k \in Index, l \in Index : b = <<"doubly", k, l>>
      <3>1. PICK k \in Index, l \in Index : b = <<"doubly", k, l>>
        BY <2>4
      <3>2. Up(b) = <<"doubly", k>> /\ Slot(b) = l
        BY <3>1, UpForm DEF Slot
      <3>3. QED BY <2>1, <3>1, <3>2
    <2> QED BY <2>1, <2>2, <2>3, <2>4 DEF LowerForm
  <1>5. ASSUME NEW b \in Children(table), NEW c \in Children(table), Slot(b) = Slot(c)
        PROVE b = c
    BY <1>4, <1>5
  <1>6. ASSUME NEW k \in Index
        PROVE \E c \in Children(table) : Slot(c) = k
    <2>1. ASSUME NEW c, LowerForm(c), Up(c) = table
          PROVE c \in Children(table)
      BY <2>1, RootTableForm DEF Children
    <2>2. CASE table = <<"indirect">>
      <3>1. Up(<<"indirect", k>>) = table /\ Slot(<<"indirect", k>>) = k
        BY <2>2, UpForm DEF Slot
      <3>2. LowerForm(<<"indirect", k>>)
        BY DEF LowerForm
      <3>3. QED BY <2>1, <3>1, <3>2
    <2>3. CASE table = <<"doubly">>
      <3>1. Up(<<"doubly", k>>) = table /\ Slot(<<"doubly", k>>) = k
        BY <2>3, UpForm DEF Slot
      <3>2. LowerForm(<<"doubly", k>>)
        BY DEF LowerForm
      <3>3. QED BY <2>1, <3>1, <3>2
    <2>4. ASSUME NEW j \in Index, table = <<"doubly", j>>
          PROVE \E c \in Children(table) : Slot(c) = k
      <3>1. Up(<<"doubly", j, k>>) = table /\ Slot(<<"doubly", j, k>>) = k
        BY <2>4, UpForm DEF Slot
      <3>2. LowerForm(<<"doubly", j, k>>)
        BY DEF LowerForm
      <3>3. QED BY <2>1, <3>1, <3>2
    <2> QED BY <2>2, <2>3, <2>4, RootTableForm DEF TableForm
  <1> QED BY <1>1, <1>2, <1>3, <1>5, <1>6

(* A node is needed together with the tables above it. *)
LEMMA WayUp ==
  ASSUME NEW i \in Block, NEW node \in Node, node \notin Root, OnWay(node, i)
  PROVE OnWay(Up(node), i)
  <1>1. PICK k \in 1 .. Len(Way(i)) : node = Way(i)[k]
    BY DEF OnWay
  <1>2. GoodWay(i)
    BY WayFacts
  <1>3. k \in 2 .. Len(Way(i)) /\ k - 1 \in 1 .. Len(Way(i))
    BY <1>1, <1>2 DEF GoodWay
  <1>4. Up(node) = Way(i)[k - 1]
    BY <1>1, <1>2, <1>3 DEF GoodWay
  <1> QED BY <1>3, <1>4 DEF OnWay

LEMMA NeedsUp ==
  ASSUME NEW n \in Nat, n - 1 \in Block \/ n = 0, NEW node \in Needs(n), node \notin Root
  PROVE Up(node) \in Needs(n)
  <1>1. PICK i \in 0 .. n - 1 : OnWay(node, i)
    BY DEF Needs
  <1>2. i \in Block /\ node \in Node
    BY InodeAssumption DEF Block, Needs
  <1>3. OnWay(Up(node), i)
    BY <1>1, <1>2, WayUp
  <1>4. Up(node) \in Node
    BY <1>2, NodeFacts, TableFacts
  <1> QED BY <1>1, <1>3, <1>4 DEF Needs

LEMMA LeafKind ==
  ASSUME NEW i
  PROVE /\ DirectAt(i) => Leaf(i)[1] = "direct" /\ Leaf(i)[2] = i
        /\ \A k \in Index : IndirectAt(i, k) =>
             Leaf(i)[1] = "indirect" /\ Leaf(i)[2] = k /\ i = Direct + k
        /\ \A k \in Index, l \in Index : DoublyAt(i, k, l) =>
             /\ Leaf(i)[1] = "doubly" /\ Leaf(i)[2] = k /\ Leaf(i)[3] = l
             /\ i = Direct + PerTable + (PerTable * k + l)
  <1>1. ASSUME DirectAt(i)
        PROVE Leaf(i)[1] = "direct" /\ Leaf(i)[2] = i
    <2>1. Leaf(i) = <<"direct", i>>
      BY <1>1 DEF DirectAt
    <2>2. QED BY <2>1
  <1>2. ASSUME NEW k \in Index, IndirectAt(i, k)
        PROVE Leaf(i)[1] = "indirect" /\ Leaf(i)[2] = k /\ i = Direct + k
    <2>1. Leaf(i) = <<"indirect", k>>
      BY <1>2 DEF IndirectAt
    <2>2. i = Direct + k
      BY <1>2 DEF IndirectAt
    <2>3. QED BY <2>1, <2>2
  <1>3. ASSUME NEW k \in Index, NEW l \in Index, DoublyAt(i, k, l)
        PROVE /\ Leaf(i)[1] = "doubly" /\ Leaf(i)[2] = k /\ Leaf(i)[3] = l
              /\ i = Direct + PerTable + (PerTable * k + l)
    <2>1. Leaf(i) = <<"doubly", k, l>>
      BY <1>3 DEF DoublyAt
    <2>2. i = Direct + PerTable + (PerTable * k + l)
      BY <1>3 DEF DoublyAt
    <2>3. Leaf(i)[1] = "doubly" /\ Leaf(i)[2] = k /\ Leaf(i)[3] = l
      BY <2>1
    <2>4. QED BY <2>2, <2>3
  <1> QED BY <1>1, <1>2, <1>3

LEMMA LeafDistinct ==
  ASSUME NEW i \in Block, NEW j \in Block, Leaf(i) = Leaf(j)
  PROVE i = j
  BY BlockForm, LeafKind

(* A leaf lies on no other way than its own. *)
LEMMA LeafOnWay ==
  ASSUME NEW i \in Block, NEW j \in Block, OnWay(Leaf(i), j)
  PROVE i = j
  <1>1. PICK k \in 1 .. Len(Way(j)) : Leaf(i) = Way(j)[k]
    BY DEF OnWay
  <1>2. GoodWay(i) /\ GoodWay(j)
    BY WayFacts
  <1>3. k = Len(Way(j))
    BY <1>1, <1>2 DEF GoodWay
  <1> QED BY <1>1, <1>2, <1>3, LeafDistinct DEF GoodWay

LEMMA NeedsNone == Needs(0) = {}
  BY DEF Needs

LEMMA NeedsNext ==
  ASSUME NEW n \in Block
  PROVE Needs(n + 1) = Needs(n) \cup {node \in Node : OnWay(node, n)}
  <1>1. n \in Nat /\ 0 .. (n + 1) - 1 = (0 .. n - 1) \cup {n}
    BY InodeAssumption DEF Block
  <1> QED BY <1>1, Zenon DEF Needs

LEMMA NeedsMore ==
  ASSUME NEW m \in Nat, NEW n \in Nat, m <= n
  PROVE Needs(m) \subseteq Needs(n)
  BY DEF Needs

LEMMA LeafNeeded ==
  ASSUME NEW n \in Nat, n - 1 \in Block \/ n = 0, NEW i \in Block
  PROVE /\ i < n => Leaf(i) \in Needs(n)
        /\ Leaf(i) \in Needs(n) => i < n
        /\ Leaf(i) \in Node
  <1>1. GoodWay(i)
    BY WayFacts
  <1>2. Leaf(i) \in Node /\ OnWay(Leaf(i), i)
    BY <1>1 DEF GoodWay, OnWay
  <1>3. ASSUME i < n
        PROVE Leaf(i) \in Needs(n)
    <2>1. i \in 0 .. n - 1
      BY <1>3, InodeAssumption DEF Block
    <2>2. QED BY <1>2, <2>1 DEF Needs
  <1>4. ASSUME Leaf(i) \in Needs(n)
        PROVE i < n
    <2>1. PICK j \in 0 .. n - 1 : OnWay(Leaf(i), j)
      BY <1>4 DEF Needs
    <2>2. j \in Block
      BY InodeAssumption DEF Block
    <2>3. QED BY <2>1, <2>2, LeafOnWay
  <1> QED BY <1>2, <1>3, <1>4

LEMMA LengthFacts ==
  ASSUME NEW n \in Length
  PROVE n \in Nat /\ (n - 1 \in Block \/ n = 0) /\ \A i \in 0 .. n - 1 : i \in Block
  <1>1. PerTable * PerTable \in Nat
    BY InodeAssumption
  <1> QED BY <1>1, InodeAssumption DEF Length, Block

-----------------------------------------------------------------------------
(* Pointers on the disk.                                                   *)

LEMMA EntryType ==
  ASSUME NEW content \in Content, NEW k \in Index
  PROVE EntryAt(content, k) \in Sector
  <1>1. 0 \in Sector
    BY InodeAssumption DEF Sector
  <1>2. ASSUME content.kind = "table"
        PROVE content.at \in [Index -> Sector]
    BY <1>2 DEF Content, Zeros, Data, Index
  <1> QED BY <1>1, <1>2 DEF EntryAt

Roots == [Root -> Sector]
DiskOK(d) == \A s \in Sector : d[s] \in Content

(* A pointer below the root is the entry of the table above it, if there   *)
(* is one: two rounds of look-ups are enough for three levels.             *)
LEMMA PointersStep ==
  ASSUME NEW d, NEW root
  PROVE /\ \A node \in Root : PointersIn(d, root)[node] = root[node]
        /\ \A node \in Node \ Root :
             PointersIn(d, root)[node] =
               IF PointersIn(d, root)[Up(node)] = 0 THEN 0
               ELSE EntryAt(d[PointersIn(d, root)[Up(node)]], Slot(node))
  <1> DEFINE first == [node \in Node |-> IF node \in Root THEN root[node] ELSE 0]
             Below(ptr) == [node \in Node |->
               IF node \in Root THEN root[node]
               ELSE IF ptr[Up(node)] = 0 THEN 0 ELSE EntryAt(d[ptr[Up(node)]], Slot(node))]
  <1>1. PointersIn(d, root) = Below(Below(first))
    BY DEF PointersIn
  <1>2. Root \subseteq Node
    BY DEF Root
  <1>3. ASSUME NEW ptr
        PROVE /\ \A node \in Root : Below(ptr)[node] = root[node]
              /\ \A node \in Node \ Root :
                   Below(ptr)[node] = IF ptr[Up(node)] = 0 THEN 0
                                      ELSE EntryAt(d[ptr[Up(node)]], Slot(node))
    BY <1>2
  <1>4. \A node \in Root : first[node] = root[node]
    BY <1>2
  <1> HIDE DEF first, Below
  <1>5. \A node \in Root : PointersIn(d, root)[node] = root[node]
    BY <1>1, <1>3
  <1>6. ASSUME NEW node \in Node \ Root
        PROVE Below(first)[Up(node)] = PointersIn(d, root)[Up(node)]
    <2>1. Up(node) \in Node /\ (Up(node) \notin Root => Up(Up(node)) \in Root)
      BY NodeFacts, TableFacts
    <2>2. CASE Up(node) \in Root
      BY <1>3, <1>5, <2>2
    <2>3. CASE Up(node) \notin Root
      <3>1. Below(first)[Up(Up(node))] = first[Up(Up(node))]
        BY <1>3, <1>4, <2>1, <2>3
      <3>2. QED BY <1>1, <1>3, <2>1, <2>3, <3>1
    <2>4. QED BY <2>2, <2>3
  <1> QED BY <1>1, <1>3, <1>5, <1>6

LEMMA PointersType ==
  ASSUME NEW d, DiskOK(d), NEW root \in Roots, NEW node \in Node
  PROVE PointersIn(d, root)[node] \in Sector
  <1>1. 0 \in Sector
    BY InodeAssumption DEF Sector
  <1>2. ASSUME NEW n \in Root
        PROVE PointersIn(d, root)[n] \in Sector
    BY <1>2, PointersStep DEF Roots
  <1>3. ASSUME NEW n \in Node \ Root, PointersIn(d, root)[Up(n)] \in Sector
        PROVE PointersIn(d, root)[n] \in Sector
    <2>1. Slot(n) \in Index
      BY NodeFacts
    <2>2. EntryAt(d[PointersIn(d, root)[Up(n)]], Slot(n)) \in Sector
      BY <1>3, <2>1, EntryType DEF DiskOK
    <2>3. QED BY <1>1, <2>2, PointersStep
  <1>4. CASE node \in Root
    BY <1>2, <1>4
  <1>5. CASE node \notin Root
    <2>1. Up(node) \in Node /\ (Up(node) \notin Root => Up(Up(node)) \in Root)
      BY <1>5, NodeFacts, TableFacts
    <2>2. PointersIn(d, root)[Up(node)] \in Sector
      BY <1>2, <1>3, <2>1
    <2>3. QED BY <1>3, <1>5, <2>2
  <1> QED BY <1>4, <1>5

-----------------------------------------------------------------------------
(* The inductive invariant.  Every sector given out so far and not         *)
(* forgotten has one owner, the sector of an inode, and one place in it, a *)
(* node or the inode itself: maps `owner` and `place` exist with the       *)
(* following properties.  They make the sectors of different files, and    *)
(* different blocks of one file, distinct, through every step in which     *)
(* pointers to them are on the disk, in an open file and in the request    *)
(* under way at once.  Owner 0 is nobody.                                  *)

Itself == CHOOSE x : x \notin Node

Homed(owner, place, ptr, o, nodes) ==
  \A node \in nodes : ptr[node] # 0 => owner[ptr[node]] = o /\ place[ptr[node]] = node

(* The sector o holds an inode whose blocks are its own and are all there. *)
InodeOK(owner, place, d, o) ==
  /\ o \in Sector /\ o # 0 /\ owner[o] = o /\ place[o] = Itself
  /\ d[o].kind = "inode"
  /\ Homed(owner, place, d[o].root, o, Root)
  /\ \A node \in Needs(d[o].len) : PointersIn(d, d[o].root)[node] # 0

(* The in-memory inode m may have more blocks than the one on the disk,    *)
(* after a failed extension, but only blocks of this file.                 *)
MemoryOK(owner, place, d, o, m) ==
  /\ m.len = d[o].len
  /\ Homed(owner, place, m.root, o, Root)
  /\ \A node \in Root : node \in Needs(m.len) => m.root[node] = d[o].root[node]

OwnersOK(owner, place, u, unmapped) ==
  /\ owner \in [Sector -> Sector] /\ place \in [Sector -> Node \cup {Itself}]
  /\ \A s \in Sector : owner[s] # 0 => s \notin System /\ (s \in u \/ unmapped)

FilesOK(owner, place, d, names) ==
  /\ \A f \in Name : names[f] # 0 => InodeOK(owner, place, d, names[f])
  /\ \A f, g \in Name : names[f] # 0 /\ names[f] = names[g] => f = g

OpenOK(owner, place, d, names, mem) ==
  \A f \in Name : mem[f] # Closed =>
    names[f] # 0 /\ MemoryOK(owner, place, d, names[f], mem[f])

(* The entries of a table lead to blocks of the table's owner, each to the *)
(* block of its place.                                                     *)
TablesOK(owner, place, d) ==
  \A s \in Sector : owner[s] # 0 /\ place[s] \in Table =>
    \A c \in Children(place[s]) :
      LET p == EntryAt(d[s], Slot(c))
      IN p # 0 => owner[p] = owner[s] /\ place[p] = c

LeavesOK(owner, place, d, names) ==
  \A s \in Sector : owner[s] # 0 /\ place[s] \in Node \ Table =>
    d[s] = Zeros \/ \E f \in Name : names[f] = owner[s] /\ d[s] = Data(f)

(* The tables inode_reserve is in the middle of. *)
Inside(j, table) == j.at < j.len /\ \E k \in 1 .. j.depth - 1 : Way(j.at)[k] = table

Agree(d, j, table) == \A c \in Children(table) : EntryAt(d[j.ptr[table]], Slot(c)) = j.ptr[c]

(* What inode_reserve has visited so far is there, and the tables it is    *)
(* done with are on the disk; a table it is in the middle of has fewer     *)
(* entries there; it holds no sector only when the disk is full and the    *)
(* request is about to fail.                                               *)
WalkOK(d, u, j) ==
  /\ j.at <= j.len
  /\ j.at < j.len => j.depth <= Len(Way(j.at))
  /\ \A node \in Needs(j.at) : j.ptr[node] # 0
  /\ j.at < j.len => \A k \in 1 .. j.depth - 1 :
       j.ptr[Way(j.at)[k]] # 0 \/ (Full(u) /\ j.ptr[Way(j.at)[j.depth]] = 0)
  /\ \A table \in Table : table \in Needs(j.at) /\ ~Inside(j, table) => Agree(d, j, table)
  /\ \A table \in Table : Inside(j, table) /\ j.ptr[table] # 0 =>
       \A c \in Children(table) :
         LET p == EntryAt(d[j.ptr[table]], Slot(c)) IN p # 0 => p = j.ptr[c]

JobOK(owner, place, d, u, names, mem, j) ==
  j \notin {NoJob, Unmapped} =>
    /\ j.sector # 0 /\ owner[j.sector] = j.sector /\ place[j.sector] = Itself
    /\ Homed(owner, place, j.ptr, j.sector, Node)
    /\ j.op = "create" => \A f \in Name : names[f] # j.sector
    /\ j.op = "write" =>
         /\ names[j.file] = j.sector /\ mem[j.file] # Closed /\ mem[j.file].len < j.len
         /\ \A node \in Root : mem[j.file].root[node] # 0 => j.ptr[node] = mem[j.file].root[node]
    /\ WalkOK(d, u, j)

HomesOK(owner, place) ==
  /\ OwnersOK(owner, place, used, job = Unmapped)
  /\ FilesOK(owner, place, disk, dir)
  /\ OpenOK(owner, place, disk, dir, open)
  /\ TablesOK(owner, place, disk)
  /\ LeavesOK(owner, place, disk, dir)
  /\ JobOK(owner, place, disk, used, dir, open, job)

IInv == TypeOK /\ \E owner, place : HomesOK(owner, place)

(* What the files occupy, by the disk d and the directory `names`, and     *)
(* what inode_reserve has visited for the request j.                       *)
SectorsAt(d, o) == {o} \cup {PointersIn(d, d[o].root)[node] : node \in Needs(d[o].len)}

Held(d, names) == UNION {SectorsAt(d, names[f]) : f \in {g \in Name : names[g] # 0}}

Visited(j) == Needs(j.at) \cup {table \in Table : Inside(j, table)}

Walked(j) ==
  IF j \in {NoJob, Unmapped} THEN {} ELSE {j.sector} \cup {j.ptr[node] : node \in Visited(j)}

(* Until a request fails, every used sector is accounted for.              *)
Accounted ==
  ~failed /\ job # Unmapped => used \subseteq System \cup Held(disk, dir) \cup Walked(job)

(* What was visited for the request j is also visited for j2, in the same  *)
(* sectors.                                                                *)
Remembers(j, j2) ==
  \A node \in Visited(j) :
    node \in Visited(j2) /\ (j2.ptr[node] = j.ptr[node] \/ j.ptr[node] = 0)

(* A step in which no file and no request loses a sector.                  *)
NoneForgotten ==
  /\ Held(disk, dir) \cup Walked(job) \subseteq System \cup Held(disk', dir') \cup Walked(job')
  /\ used' \subseteq used \cup Walked(job')

LEMMA ItselfIsNoNode == Itself \notin Node
  BY NoSetContainsEverything DEF Itself

Owners == [Sector -> Sector]
Places == [Sector -> Node \cup {Itself}]

(* Whatever the tables lead to belongs to the inode they were reached      *)
(* from, at the place it was reached by.                                   *)
LEMMA HomedBlocks ==
  ASSUME NEW owner \in Owners, NEW place \in Places, NEW d, DiskOK(d),
         TablesOK(owner, place, d),
         NEW root \in Roots, NEW o \in Sector, o # 0, Homed(owner, place, root, o, Root)
  PROVE Homed(owner, place, PointersIn(d, root), o, Node)
  <1> DEFINE P == PointersIn(d, root)
             Good(node) == P[node] # 0 => owner[P[node]] = o /\ place[P[node]] = node
  <1>1. ASSUME NEW node \in Root
        PROVE Good(node)
    BY <1>1, PointersStep DEF Homed
  <1>2. ASSUME NEW node \in Node \ Root, Good(Up(node))
        PROVE Good(node)
    <2> SUFFICES ASSUME P[node] # 0
                 PROVE owner[P[node]] = o /\ place[P[node]] = node
      OBVIOUS
    <2>1. P[Up(node)] # 0 /\ P[node] = EntryAt(d[P[Up(node)]], Slot(node))
      BY PointersStep
    <2>2. Up(node) \in Table /\ node \in Children(Up(node))
      BY NodeFacts
    <2>3. P[Up(node)] \in Sector
      BY <2>2, PointersType, TableFacts
    <2> HIDE DEF P
    <2>4. owner[P[Up(node)]] = o /\ place[P[Up(node)]] = Up(node)
      BY <1>2, <2>1
    <2>5. QED BY <2>1, <2>2, <2>3, <2>4 DEF TablesOK
  <1> HIDE DEF Good, P
  <1>3. ASSUME NEW node \in Node
        PROVE Good(node)
    <2>1. CASE node \in Root
      BY <1>1, <2>1
    <2>2. CASE node \notin Root
      <3>1. Up(node) \in Node /\ (Up(node) \notin Root => Up(Up(node)) \in Root)
        BY <2>2, NodeFacts, TableFacts
      <3>2. Good(Up(node))
        BY <1>1, <1>2, <3>1
      <3>3. QED BY <1>2, <2>2, <3>2
    <2>3. QED BY <2>1, <2>2
  <1> QED BY <1>3 DEF Good, P, Homed

(* Two pointers to one sector are the same pointer. *)
LEMMA HomedInjective ==
  ASSUME NEW owner, NEW place, NEW p, NEW q, NEW o, NEW o2, NEW nodes, NEW nodes2,
         Homed(owner, place, p, o, nodes), Homed(owner, place, q, o2, nodes2),
         NEW m \in nodes, NEW n \in nodes2, p[m] # 0, p[m] = q[n]
  PROVE o = o2 /\ m = n
  BY DEF Homed

(* A step that leaves the blocks of the inodes in O in their places, their *)
(* inodes as they are, and changes entries of their tables only where      *)
(* there was none.                                                         *)
Frame(owner, place, d, owner2, place2, d2, O) ==
  \A s \in Sector : owner[s] \in O =>
    /\ owner2[s] = owner[s] /\ place2[s] = place[s]
    /\ place[s] = Itself => d2[s] = d[s]
    /\ place[s] \in Table => \A k \in Index :
         EntryAt(d[s], k) # 0 => EntryAt(d2[s], k) = EntryAt(d[s], k)

LEMMA FrameHomed ==
  ASSUME NEW owner, NEW place, NEW d, NEW owner2, NEW place2, NEW d2, NEW O, NEW o \in O,
         Frame(owner, place, d, owner2, place2, d2, O),
         NEW nodes, NEW ptr \in [nodes -> Sector], Homed(owner, place, ptr, o, nodes)
  PROVE Homed(owner2, place2, ptr, o, nodes)
  BY DEF Frame, Homed

LEMMA FramePointers ==
  ASSUME NEW owner \in Owners, NEW place \in Places, NEW d, DiskOK(d),
         NEW owner2, NEW place2, NEW d2, NEW O, NEW o \in O, o \in Sector, o # 0,
         Frame(owner, place, d, owner2, place2, d2, O),
         TablesOK(owner, place, d),
         NEW root \in Roots, Homed(owner, place, root, o, Root)
  PROVE \A node \in Node : PointersIn(d, root)[node] # 0 =>
          PointersIn(d2, root)[node] = PointersIn(d, root)[node]
  <1> DEFINE P == PointersIn(d, root)
             Q == PointersIn(d2, root)
             Good(node) == P[node] # 0 => Q[node] = P[node]
  <1>0. Homed(owner, place, P, o, Node)
    BY HomedBlocks
  <1>1. ASSUME NEW node \in Root
        PROVE Good(node)
    BY <1>1, PointersStep
  <1>2. ASSUME NEW node \in Node \ Root, Good(Up(node))
        PROVE Good(node)
    <2> SUFFICES ASSUME P[node] # 0
                 PROVE Q[node] = P[node]
      OBVIOUS
    <2>1. P[Up(node)] # 0 /\ P[node] = EntryAt(d[P[Up(node)]], Slot(node))
      BY PointersStep
    <2>2. Up(node) \in Table /\ Slot(node) \in Index /\ Up(node) \in Node
      BY NodeFacts, TableFacts
    <2>3. P[Up(node)] \in Sector
      BY <2>2, PointersType
    <2>4. Q[node] = IF Q[Up(node)] = 0 THEN 0 ELSE EntryAt(d2[Q[Up(node)]], Slot(node))
      BY PointersStep
    <2> HIDE DEF P, Q
    <2>5. Q[Up(node)] = P[Up(node)]
      BY <1>2, <2>1
    <2>6. owner[P[Up(node)]] = o /\ place[P[Up(node)]] = Up(node)
      BY <1>0, <2>1, <2>2 DEF Homed
    <2>7. EntryAt(d2[P[Up(node)]], Slot(node)) = EntryAt(d[P[Up(node)]], Slot(node))
      BY <2>1, <2>2, <2>3, <2>6 DEF Frame
    <2>8. QED BY <2>1, <2>4, <2>5, <2>7
  <1> HIDE DEF Good, P, Q
  <1>3. ASSUME NEW node \in Node
        PROVE Good(node)
    <2>1. CASE node \in Root
      BY <1>1, <2>1
    <2>2. CASE node \notin Root
      <3>1. Up(node) \in Node /\ (Up(node) \notin Root => Up(Up(node)) \in Root)
        BY <2>2, NodeFacts, TableFacts
      <3>2. Good(Up(node))
        BY <1>1, <1>2, <3>1
      <3>3. QED BY <1>2, <2>2, <3>2
    <2>3. QED BY <2>1, <2>2
  <1> QED BY <1>3 DEF Good, P, Q

LEMMA InodeType ==
  ASSUME NEW c \in Content, c.kind = "inode"
  PROVE c.len \in Length /\ c.root \in Roots
  BY DEF Content, Zeros, Data, Roots

LEMMA FrameInode ==
  ASSUME NEW owner \in Owners, NEW place \in Places, NEW d, DiskOK(d),
         NEW owner2, NEW place2, NEW d2, NEW O, NEW o \in O,
         Frame(owner, place, d, owner2, place2, d2, O),
         TablesOK(owner, place, d), InodeOK(owner, place, d, o)
  PROVE InodeOK(owner2, place2, d2, o) /\ d2[o] = d[o]
  <1>1. o \in Sector /\ o # 0 /\ owner[o] = o /\ place[o] = Itself /\ d[o].kind = "inode"
    BY DEF InodeOK
  <1>2. d2[o] = d[o] /\ owner2[o] = o /\ place2[o] = Itself
    BY <1>1 DEF Frame
  <1>3. d[o].len \in Length /\ d[o].root \in Roots
    BY <1>1, InodeType DEF DiskOK
  <1>4. Homed(owner, place, d[o].root, o, Root)
    BY DEF InodeOK
  <1>5. Homed(owner2, place2, d[o].root, o, Root)
    BY <1>3, <1>4, FrameHomed DEF Roots
  <1>6. \A node \in Node : PointersIn(d, d[o].root)[node] # 0 =>
          PointersIn(d2, d[o].root)[node] = PointersIn(d, d[o].root)[node]
    BY <1>1, <1>3, <1>4, FramePointers
  <1>7. \A node \in Needs(d[o].len) : PointersIn(d2, d[o].root)[node] # 0
    BY <1>6 DEF InodeOK, Needs
  <1> QED BY <1>1, <1>2, <1>5, <1>7 DEF InodeOK

(* And it reaches the same sectors. *)
LEMMA FrameSectors ==
  ASSUME NEW owner \in Owners, NEW place \in Places, NEW d, DiskOK(d),
         NEW owner2, NEW place2, NEW d2, NEW O, NEW o \in O,
         Frame(owner, place, d, owner2, place2, d2, O),
         TablesOK(owner, place, d), InodeOK(owner, place, d, o)
  PROVE SectorsAt(d2, o) = SectorsAt(d, o)
  <1>1. /\ o \in Sector /\ o # 0 /\ owner[o] = o /\ place[o] = Itself /\ d[o].kind = "inode"
        /\ Homed(owner, place, d[o].root, o, Root)
    BY DEF InodeOK
  <1>2. d2[o] = d[o]
    BY <1>1 DEF Frame
  <1>3. d[o].root \in Roots
    BY <1>1, InodeType DEF DiskOK
  <1>4. \A node \in Node : PointersIn(d, d[o].root)[node] # 0 =>
          PointersIn(d2, d[o].root)[node] = PointersIn(d, d[o].root)[node]
    BY <1>1, <1>3, FramePointers
  <1>5. \A node \in Needs(d[o].len) :
          PointersIn(d2, d2[o].root)[node] = PointersIn(d, d[o].root)[node]
    BY <1>2, <1>4 DEF InodeOK, Needs
  <1> QED BY <1>2, <1>5 DEF SectorsAt

LEMMA FrameMemory ==
  ASSUME NEW owner, NEW place, NEW d, NEW owner2, NEW place2, NEW d2, NEW O, NEW o \in O,
         Frame(owner, place, d, owner2, place2, d2, O), d2[o] = d[o],
         NEW m, m.root \in Roots, MemoryOK(owner, place, d, o, m)
  PROVE MemoryOK(owner2, place2, d2, o, m)
  BY FrameHomed DEF MemoryOK, Roots

-----------------------------------------------------------------------------
(* What the invariant says of the sectors of files.                        *)

LEMMA TypeFacts ==
  ASSUME TypeOK
  PROVE /\ DiskOK(disk) /\ used \in SUBSET Sector /\ System \subseteq used
        /\ dir \in [Name -> Sector]
        /\ \A f \in Name : open[f] # Closed =>
             open[f].kind = "open" /\ open[f].len \in Length /\ open[f].root \in Roots
        /\ job \notin {NoJob, Unmapped} => job \in Jobs
        /\ disk \in [Sector -> Content] /\ DOMAIN open = Name
        /\ 0 \in Sector /\ 1 \in Sector
  BY InodeAssumption DEF TypeOK, DiskOK, Roots, Sector

(* The blocks of a file, and its inode's sector: typed, owned by it, each  *)
(* in its place.                                                           *)
LEMMA FileBlocks ==
  ASSUME TypeOK, NEW owner, NEW place, HomesOK(owner, place), NEW f \in Files
  PROVE /\ owner \in Owners /\ place \in Places
        /\ dir[f] \in Sector /\ dir[f] # 0 /\ owner[dir[f]] = dir[f] /\ place[dir[f]] = Itself
        /\ disk[dir[f]].kind = "inode"
        /\ OnDisk(f).len \in Length /\ OnDisk(f).root \in Roots
        /\ Homed(owner, place, OnDisk(f).root, dir[f], Root)
        /\ Homed(owner, place, PointersOf(OnDisk(f).root), dir[f], Node)
        /\ \A node \in Node : PointersOf(OnDisk(f).root)[node] \in Sector
        /\ \A node \in Needs(OnDisk(f).len) : PointersOf(OnDisk(f).root)[node] # 0
  <1>1. /\ owner \in Owners /\ place \in Places /\ InodeOK(owner, place, disk, dir[f])
        /\ TablesOK(owner, place, disk)
    BY DEF HomesOK, OwnersOK, FilesOK, Files, Exists, Owners, Places
  <1>2. /\ dir[f] \in Sector /\ dir[f] # 0 /\ owner[dir[f]] = dir[f] /\ place[dir[f]] = Itself
        /\ OnDisk(f).kind = "inode" /\ Homed(owner, place, OnDisk(f).root, dir[f], Root)
        /\ \A node \in Needs(OnDisk(f).len) : PointersOf(OnDisk(f).root)[node] # 0
    BY <1>1 DEF InodeOK, OnDisk, PointersOf
  <1>3. OnDisk(f).len \in Length /\ OnDisk(f).root \in Roots
    BY <1>2, TypeFacts, InodeType DEF DiskOK, OnDisk
  <1>4. Homed(owner, place, PointersOf(OnDisk(f).root), dir[f], Node)
    BY <1>1, <1>2, <1>3, TypeFacts, HomedBlocks DEF PointersOf
  <1>5. \A node \in Node : PointersOf(OnDisk(f).root)[node] \in Sector
    BY <1>3, TypeFacts, PointersType DEF PointersOf
  <1> QED BY <1>1, <1>2, <1>3, <1>4, <1>5 DEF OnDisk

LEMMA OccupiesOwned ==
  ASSUME TypeOK, NEW owner, NEW place, HomesOK(owner, place), NEW f \in Files,
         NEW s \in Occupies(f)
  PROVE s \in Sector /\ owner[s] = dir[f] /\ s \notin System /\ (s \in used \/ job = Unmapped)
  <1>1. s \in Sector /\ owner[s] = dir[f]
    <2>1. CASE s = dir[f]
      BY <2>1, FileBlocks
    <2>2. CASE s \in BlocksOf(f)
      <3>1. PICK node \in Needs(OnDisk(f).len) : s = PointersOf(OnDisk(f).root)[node]
        BY <2>2 DEF BlocksOf
      <3>2. node \in Node
        BY DEF Needs
      <3>3. QED BY <3>1, <3>2, FileBlocks DEF Homed
    <2>3. QED BY <2>1, <2>2 DEF Occupies
  <1>2. owner[s] # 0
    BY <1>1 DEF Files, Exists
  <1> QED BY <1>1, <1>2 DEF HomesOK, OwnersOK

LEMMA OccupiesSize ==
  ASSUME TypeOK, NEW owner, NEW place, HomesOK(owner, place), NEW f \in Files
  PROVE Cardinality(Occupies(f)) = 1 + Cardinality(Needs(OnDisk(f).len))
  <1> DEFINE P == PointersOf(OnDisk(f).root)
             N == Needs(OnDisk(f).len)
             B == BlocksOf(f)
             g == [node \in N |-> P[node]]
  <1>1. N \subseteq Node
    BY DEF Needs
  <1>2. B = {P[node] : node \in N}
    BY DEF BlocksOf
  <1>3. B \subseteq Sector
    BY <1>1, <1>2, FileBlocks
  <1>4. IsFiniteSet(Sector)
    BY InodeAssumption, FS_Interval DEF Sector
  <1>5. IsFiniteSet(B)
    BY <1>3, <1>4, FS_Subset
  <1>6. \A m, n \in N : P[m] = P[n] => m = n
    BY <1>1, FileBlocks DEF Homed
  <1>7. dir[f] \notin B
    <2> SUFFICES ASSUME NEW node \in N, P[node] = dir[f]
                 PROVE FALSE
      BY <1>2
    <2>1. place[dir[f]] = node
      BY <1>1, FileBlocks DEF Homed
    <2>2. QED BY <1>1, <2>1, FileBlocks, ItselfIsNoNode
  <1> HIDE DEF P, N, B
  <1>8. g \in Injection(N, B) /\ g \in Surjection(N, B)
    BY <1>2, <1>6 DEF Injection, Surjection, IsInjective
  <1>9. Cardinality(N) = Cardinality(B)
    BY <1>5, <1>8, FS_Injection
  <1>10. Cardinality(B \cup {dir[f]}) = Cardinality(B) + 1
    BY <1>5, <1>7, FS_AddElement
  <1>11. Cardinality(B) \in Nat
    BY <1>5, FS_CardinalityType
  <1>12. Occupies(f) = B \cup {dir[f]}
    BY DEF Occupies, B
  <1> QED BY <1>9, <1>10, <1>11, <1>12 DEF N

LEMMA SectorsDisjoint ==
  ASSUME IInv
  PROVE NoSharedSector
  <1>1. PICK owner, place : HomesOK(owner, place)
    BY DEF IInv
  <1>2. TypeOK
    BY DEF IInv
  <1> SUFFICES ASSUME NEW f \in Files, NEW g \in Files
               PROVE /\ disk[dir[f]].kind = "inode"
                     /\ Occupies(f) \cap System = {}
                     /\ Cardinality(Occupies(f)) = 1 + Cardinality(Needs(OnDisk(f).len))
                     /\ f # g => Occupies(f) \cap Occupies(g) = {}
    BY DEF NoSharedSector
  <1>3. disk[dir[f]].kind = "inode"
    BY <1>1, <1>2, FileBlocks
  <1>4. Occupies(f) \cap System = {}
    BY <1>1, <1>2, OccupiesOwned
  <1>5. Cardinality(Occupies(f)) = 1 + Cardinality(Needs(OnDisk(f).len))
    BY <1>1, <1>2, OccupiesSize
  <1>6. ASSUME f # g, NEW s \in Occupies(f), s \in Occupies(g)
        PROVE FALSE
    <2>1. dir[f] = dir[g]
      BY <1>1, <1>2, <1>6, OccupiesOwned
    <2>2. QED BY <1>1, <1>6, <2>1 DEF HomesOK, FilesOK, Files, Exists
  <1> QED BY <1>3, <1>4, <1>5, <1>6

LEMMA OwnedUsed ==
  ASSUME IInv
  PROVE OwnedAreUsed
  <1>1. PICK owner, place : HomesOK(owner, place)
    BY DEF IInv
  <1>2. TypeOK
    BY DEF IInv
  <1> QED BY <1>1, <1>2, OccupiesOwned DEF OwnedAreUsed

(* Pointers within a length depend only on the root pointers within it.    *)
LEMMA SamePointers ==
  ASSUME NEW d, NEW n \in Length, NEW r, NEW q,
         \A node \in Root : node \in Needs(n) => r[node] = q[node]
  PROVE \A node \in Needs(n) : PointersIn(d, r)[node] = PointersIn(d, q)[node]
  <1> DEFINE Same(node) == PointersIn(d, r)[node] = PointersIn(d, q)[node]
  <1>1. ASSUME NEW node \in Needs(n), node \in Root
        PROVE Same(node)
    BY <1>1, PointersStep
  <1>2. ASSUME NEW node \in Needs(n), node \notin Root, Same(Up(node))
        PROVE Same(node)
    <2>1. node \in Node \ Root
      BY <1>2 DEF Needs
    <2>2. QED BY <1>2, <2>1, PointersStep
  <1>3. ASSUME NEW node \in Needs(n), node \notin Root
        PROVE Up(node) \in Needs(n) /\ (Up(node) \notin Root => Up(Up(node)) \in Root)
    <2>1. node \in Node
      BY DEF Needs
    <2>2. QED BY <1>3, <2>1, LengthFacts, NeedsUp, NodeFacts
  <1> HIDE DEF Same
  <1>4. ASSUME NEW node \in Needs(n)
        PROVE Same(node)
    <2>1. CASE node \in Root
      BY <1>1, <2>1
    <2>2. CASE node \notin Root
      <3>1. CASE Up(node) \in Root
        BY <1>1, <1>2, <1>3, <2>2, <3>1
      <3>2. CASE Up(node) \notin Root
        <4>1. Up(node) \in Needs(n) /\ Up(Up(node)) \in Needs(n) /\ Up(Up(node)) \in Root
          BY <1>3, <2>2, <3>2
        <4>2. Same(Up(node))
          BY <1>1, <1>2, <3>2, <4>1
        <4>3. QED BY <1>2, <2>2, <4>2
      <3>3. QED BY <3>1, <3>2
    <2>3. QED BY <2>1, <2>2
  <1> QED BY <1>4 DEF Same

LEMMA MemoryMatches ==
  ASSUME IInv
  PROVE OpenMatchesDisk
  <1>1. PICK owner, place : HomesOK(owner, place)
    BY DEF IInv
  <1>2. TypeOK
    BY DEF IInv
  <1> SUFFICES ASSUME NEW f \in Files, open[f] # Closed
               PROVE /\ open[f].len = OnDisk(f).len
                     /\ \A node \in Needs(open[f].len) :
                          PointersOf(open[f].root)[node] = PointersOf(OnDisk(f).root)[node]
    BY DEF OpenMatchesDisk
  <1>3. f \in Name /\ MemoryOK(owner, place, disk, dir[f], open[f])
    BY <1>1 DEF HomesOK, OpenOK, Files
  <1>4. open[f].len \in Length
    BY <1>2, <1>3, TypeFacts
  <1>5. \A node \in Root : node \in Needs(open[f].len) => open[f].root[node] = OnDisk(f).root[node]
    BY <1>3 DEF MemoryOK, OnDisk
  <1>6. \A node \in Needs(open[f].len) :
          PointersIn(disk, open[f].root)[node] = PointersIn(disk, OnDisk(f).root)[node]
    <2> DEFINE r == open[f].root
               q == OnDisk(f).root
               n == open[f].len
    <2>1. n \in Length /\ \A node \in Root : node \in Needs(n) => r[node] = q[node]
      BY <1>4, <1>5
    <2> HIDE DEF r, q, n
    <2>2. \A node \in Needs(n) : PointersIn(disk, r)[node] = PointersIn(disk, q)[node]
      BY <2>1, SamePointers
    <2>3. QED BY <2>2 DEF r, q, n
  <1> QED BY <1>3, <1>6 DEF MemoryOK, OnDisk, PointersOf

LEMMA ContentsOwn ==
  ASSUME IInv
  PROVE OwnContent
  <1>1. PICK owner, place : HomesOK(owner, place)
    BY DEF IInv
  <1>2. TypeOK
    BY DEF IInv
  <1> SUFFICES ASSUME NEW f \in Files, NEW i \in 0 .. OnDisk(f).len - 1
               PROVE disk[PointersOf(OnDisk(f).root)[Leaf(i)]] \in {Zeros, Data(f)}
    BY DEF OwnContent
  <1> DEFINE s == PointersOf(OnDisk(f).root)[Leaf(i)]
  <1>3. OnDisk(f).len \in Length
    BY <1>1, <1>2, FileBlocks
  <1>4. i \in Block /\ i < OnDisk(f).len
    BY <1>3, LengthFacts
  <1>5. Leaf(i) \in Needs(OnDisk(f).len) /\ Leaf(i) \in Node \ Table
    BY <1>3, <1>4, LengthFacts, LeafNeeded, TableFacts
  <1>6. s \in Sector /\ s # 0
    BY <1>1, <1>2, <1>5, FileBlocks
  <1>7. owner[s] = dir[f] /\ place[s] = Leaf(i) /\ dir[f] # 0
    BY <1>1, <1>2, <1>5, <1>6, FileBlocks DEF Homed
  <1> HIDE DEF s
  <1>8. disk[s] = Zeros \/ \E g \in Name : dir[g] = dir[f] /\ disk[s] = Data(g)
    BY <1>1, <1>5, <1>6, <1>7 DEF HomesOK, LeavesOK
  <1>9. \A g \in Name : dir[g] = dir[f] => g = f
    BY <1>1, <1>7 DEF HomesOK, FilesOK, Files
  <1> QED BY <1>8, <1>9 DEF s

-----------------------------------------------------------------------------
(* The initial state and the steps.                                        *)

LEMMA RootNode == Root \subseteq Node
  BY DEF Root

LEMMA InitHomes ==
  ASSUME Init
  PROVE IInv
  <1>1. NoBlocks \in Roots
    BY InodeAssumption DEF NoBlocks, Roots, Sector
  <1>2. Inode(0, NoBlocks) \in Content /\ Zeros \in Content
    BY <1>1 DEF Content, Inode, Length, Roots
  <1>3. TypeOK
    <2>1. System \subseteq Sector /\ RootDirSector \in Sector /\ 0 \in Sector
      BY InodeAssumption DEF System, Sector, FreeMapSector, RootDirSector
    <2>2. disk \in [Sector -> Content]
      BY <1>2 DEF Init
    <2>3. disk[RootDirSector].kind = "inode"
      BY <2>1 DEF Init, Inode, System
    <2>4. QED BY <2>1, <2>2, <2>3 DEF Init, TypeOK
  <1> DEFINE owner == [s \in Sector |-> 0]
             place == [s \in Sector |-> Itself]
  <1>4. OwnersOK(owner, place, used, job = Unmapped)
    BY InodeAssumption DEF OwnersOK, Sector
  <1>5. \A s \in Sector : owner[s] = 0
    OBVIOUS
  <1> HIDE DEF owner, place
  <1>6. FilesOK(owner, place, disk, dir) /\ OpenOK(owner, place, disk, dir, open)
    BY DEF Init, FilesOK, OpenOK
  <1>7. TablesOK(owner, place, disk) /\ LeavesOK(owner, place, disk, dir)
    BY <1>5 DEF TablesOK, LeavesOK
  <1>8. JobOK(owner, place, disk, used, dir, open, job)
    BY DEF Init, JobOK
  <1>9. HomesOK(owner, place)
    BY <1>4, <1>6, <1>7, <1>8 DEF HomesOK
  <1> QED BY <1>3, <1>9 DEF IInv

(* free_map_allocate finds a clear bit when there is one. *)
LEMMA LowestIsFree ==
  ASSUME used \in SUBSET Sector, ~Full(used)
  PROVE Lowest(used) \in Sector \ used
  <1> DEFINE T == Sector \ used
  <1>1. T \in SUBSET Nat /\ T # {}
    <2>1. T # {}
      BY Zenon DEF Full
    <2>2. T \in SUBSET Nat
      BY InodeAssumption DEF Sector
    <2>3. QED BY <2>1, <2>2
  <1>2. PICK x \in T : \A y \in T : ~(<<y, x>> \in OpToRel(<, Nat))
    BY <1>1, NatLessThanWellFounded, WFMin, Zenon
  <1>3. \A y \in T : ~(y < x)
    BY <1>1, <1>2 DEF OpToRel
  <1>4. \A y \in T : x <= y
    BY <1>1, <1>3
  <1> QED BY <1>4 DEF Lowest

(* A file whose inode sector stays in its owner's hands is as it was. *)
LEMMA FrameFile ==
  ASSUME TypeOK, NEW owner, NEW place, HomesOK(owner, place),
         NEW owner2, NEW place2, NEW d2, NEW O,
         Frame(owner, place, disk, owner2, place2, d2, O),
         NEW f \in Name, dir[f] # 0, dir[f] \in O
  PROVE /\ InodeOK(owner2, place2, d2, dir[f])
        /\ d2[dir[f]] = disk[dir[f]]
        /\ open[f] # Closed => MemoryOK(owner2, place2, d2, dir[f], open[f])
  <1>1. /\ owner \in Owners /\ place \in Places /\ DiskOK(disk) /\ TablesOK(owner, place, disk)
        /\ InodeOK(owner, place, disk, dir[f])
    BY TypeFacts DEF HomesOK, OwnersOK, FilesOK, Owners, Places
  <1>2. InodeOK(owner2, place2, d2, dir[f]) /\ d2[dir[f]] = disk[dir[f]]
    <2> DEFINE o == dir[f]
    <2>1. o \in O /\ InodeOK(owner, place, disk, o)
      BY <1>1
    <2> HIDE DEF o
    <2>2. InodeOK(owner2, place2, d2, o) /\ d2[o] = disk[o]
      BY <1>1, <2>1, FrameInode
    <2>3. QED BY <2>2 DEF o
  <1>3. ASSUME open[f] # Closed
        PROVE MemoryOK(owner2, place2, d2, dir[f], open[f])
    <2>1. open[f].root \in Roots /\ MemoryOK(owner, place, disk, dir[f], open[f])
      BY <1>3, TypeFacts DEF HomesOK, OpenOK
    <2>2. QED BY <1>2, <2>1, FrameMemory
  <1> QED BY <1>2, <1>3

(* The files occupy the same sectors after a step that leaves the blocks   *)
(* of their inodes in place.                                               *)
LEMMA SectorsKept ==
  ASSUME TypeOK, NEW owner, NEW place, HomesOK(owner, place),
         NEW owner2, NEW place2, NEW d2, NEW O,
         Frame(owner, place, disk, owner2, place2, d2, O),
         NEW f \in Name, dir[f] # 0, dir[f] \in O
  PROVE SectorsAt(d2, dir[f]) = SectorsAt(disk, dir[f])
  <1>1. PICK o : o = dir[f]
    OBVIOUS
  <1>2. /\ owner \in Owners /\ place \in Places /\ DiskOK(disk) /\ TablesOK(owner, place, disk)
        /\ InodeOK(owner, place, disk, o) /\ o \in O
    BY <1>1, TypeFacts DEF HomesOK, OwnersOK, FilesOK, Owners, Places
  <1>3. PICK d : d = disk
    OBVIOUS
  <1>4. SectorsAt(d2, o) = SectorsAt(d, o)
    <2>1. /\ DiskOK(d) /\ TablesOK(owner, place, d) /\ InodeOK(owner, place, d, o)
          /\ Frame(owner, place, d, owner2, place2, d2, O)
      BY <1>2, <1>3
    <2>2. QED BY <1>2, <2>1, FrameSectors
  <1>5. QED BY <1>1, <1>3, <1>4

LEMMA HeldKept ==
  ASSUME TypeOK, NEW owner, NEW place, HomesOK(owner, place),
         NEW owner2, NEW place2, NEW d2, NEW O,
         Frame(owner, place, disk, owner2, place2, d2, O),
         \A f \in Name : dir[f] # 0 => dir[f] \in O
  PROVE Held(disk, dir) \subseteq Held(d2, dir)
  <1>1. \A f \in Name : dir[f] # 0 => SectorsAt(d2, dir[f]) = SectorsAt(disk, dir[f])
    BY SectorsKept
  <1> QED BY <1>1 DEF Held

(* A file's inode sector is owned, and marked used. *)
LEMMA DirOwned ==
  ASSUME TypeOK, NEW owner, NEW place, HomesOK(owner, place), NEW f \in Name, dir[f] # 0
  PROVE /\ dir[f] \in Sector /\ owner[dir[f]] = dir[f] /\ place[dir[f]] = Itself
        /\ dir[f] \notin System /\ (dir[f] \in used \/ job = Unmapped)
  <1>1. InodeOK(owner, place, disk, dir[f])
    BY DEF HomesOK, FilesOK
  <1>2. dir[f] \in Sector /\ owner[dir[f]] = dir[f] /\ place[dir[f]] = Itself
    BY <1>1 DEF InodeOK
  <1> QED BY <1>2 DEF HomesOK, OwnersOK

LEMMA JobRecord ==
  ASSUME TypeOK
  PROVE /\ job.op \in {"create", "write"} => job \notin {NoJob, Unmapped}
        /\ NoJob # Unmapped
  BY DEF NoJob, Unmapped

(* inode_reserve starts with nothing visited, on the root pointers. *)
LEMMA ReserveIs ==
  ASSUME NEW op \in {"create", "write"}, NEW f \in Name, NEW s \in Sector,
         NEW root \in Roots, NEW n \in Length, NEW j, j = Reserve(op, f, s, root, n)
  PROVE /\ j.op = op /\ j.file = f /\ j.sector = s /\ j.len = n /\ j.at = 0 /\ j.depth = 1
        /\ j \in Jobs /\ j \notin {NoJob, Unmapped}
        /\ \A node \in Root : j.ptr[node] = root[node]
        /\ \A node \in Node \ Root : j.ptr[node] = 0
  <1> DEFINE q == [node \in Node |-> IF node \in Root THEN root[node] ELSE 0]
  <1>1. 0 \in Sector
    BY InodeAssumption DEF Sector
  <1>2. /\ q \in [Node -> Sector]
        /\ \A node \in Root : q[node] = root[node]
        /\ \A node \in Node \ Root : q[node] = 0
    BY <1>1, RootNode DEF Roots
  <1>3. j = [op |-> op, file |-> f, sector |-> s, len |-> n, at |-> 0, depth |-> 1, ptr |-> q]
    BY DEF Reserve
  <1> HIDE DEF q
  <1> QED BY <1>2, <1>3 DEF Jobs, NoJob, Unmapped

LEMMA WalkStarts ==
  ASSUME NEW j \in Jobs, j.at = 0, j.depth = 1, NEW d, NEW u
  PROVE WalkOK(d, u, j)
  <1>1. j.len \in Length
    BY DEF Jobs
  <1>2. j.len \in Nat /\ (j.len > 0 => 0 \in Block)
    BY <1>1, LengthFacts
  <1>3. j.len > 0 => Len(Way(0)) >= 1
    BY <1>2, WayFacts DEF GoodWay
  <1>4. \A table : ~Inside(j, table)
    BY DEF Inside
  <1> QED BY <1>2, <1>3, <1>4, NeedsNone DEF WalkOK

Owned == Sector \ {0}

(* A sector nobody owned is given to o, at place p; what else lies on the  *)
(* disk stays.                                                             *)
Given(owner, place, owner2, place2, s, o, p) ==
  /\ owner2 \in Owners /\ place2 \in Places /\ owner2[s] = o /\ place2[s] = p
  /\ \A t \in Sector : t # s => owner2[t] = owner[t] /\ place2[t] = place[t]

Kept(owner, d, d2) == \A t \in Sector : owner[t] # 0 => d2[t] = d[t]

LEMMA Give ==
  ASSUME NEW owner \in Owners, NEW place \in Places, NEW s \in Sector,
         NEW o \in Sector, NEW p \in Node \cup {Itself}
  PROVE \E owner2, place2 : Given(owner, place, owner2, place2, s, o, p)
  <1> DEFINE owner2 == [owner EXCEPT ![s] = o]
             place2 == [place EXCEPT ![s] = p]
  <1>1. owner2 \in Owners /\ place2 \in Places
    BY DEF Owners, Places
  <1>2. owner2[s] = o /\ place2[s] = p
    BY DEF Owners, Places
  <1>3. \A t \in Sector : t # s => owner2[t] = owner[t] /\ place2[t] = place[t]
    BY DEF Owners, Places
  <1> HIDE DEF owner2, place2
  <1> QED BY <1>1, <1>2, <1>3 DEF Given

LEMMA GiveFrame ==
  ASSUME NEW owner, NEW place, NEW owner2, NEW place2, NEW s \in Sector, NEW o, NEW p,
         owner[s] = 0, Given(owner, place, owner2, place2, s, o, p),
         NEW d, NEW d2, Kept(owner, d, d2)
  PROVE Frame(owner, place, d, owner2, place2, d2, Owned)
  BY DEF Frame, Owned, Given, Kept

(* The tables of more sectors are in order if the new one, when it is a    *)
(* table, is empty.                                                        *)
LEMMA GiveTables ==
  ASSUME NEW owner, NEW place, NEW owner2, NEW place2, NEW s \in Sector, NEW o, NEW p,
         owner[s] = 0, Given(owner, place, owner2, place2, s, o, p),
         NEW d, DiskOK(d), NEW d2, Kept(owner, d, d2), TablesOK(owner, place, d),
         p \in Table => d2[s] = Zeros
  PROVE TablesOK(owner2, place2, d2)
  <1> SUFFICES ASSUME NEW t \in Sector, owner2[t] # 0, place2[t] \in Table,
                      NEW c \in Children(place2[t]), EntryAt(d2[t], Slot(c)) # 0
               PROVE /\ owner2[EntryAt(d2[t], Slot(c))] = owner2[t]
                     /\ place2[EntryAt(d2[t], Slot(c))] = c
    BY DEF TablesOK
  <1> DEFINE q == EntryAt(d2[t], Slot(c))
  <1>1. Slot(c) \in Index
    BY TableFacts
  <1>2. t # s
    BY DEF Given, EntryAt, Zeros
  <1>3. owner[t] = owner2[t] /\ place[t] = place2[t] /\ d2[t] = d[t]
    BY <1>2 DEF Given, Kept
  <1>4. q \in Sector
    BY <1>1, <1>3, EntryType DEF DiskOK
  <1> HIDE DEF q
  <1>5. q = EntryAt(d[t], Slot(c)) /\ q # 0
    BY <1>3 DEF q
  <1>6. owner[q] = owner[t] /\ place[q] = c
    BY <1>3, <1>5 DEF TablesOK
  <1>7. q # s
    BY <1>3, <1>6
  <1> QED BY <1>3, <1>4, <1>6, <1>7 DEF q, Given

(* A sector that is not marked belongs to nobody. *)
LEMMA FreeUnowned ==
  ASSUME TypeOK, NEW owner, NEW place, HomesOK(owner, place), job # Unmapped
  PROVE /\ owner \in Owners /\ place \in Places
        /\ \A s \in Sector : owner[s] # 0 => s \notin System /\ s \in used
        /\ \A s \in Sector \ used : owner[s] = 0
  <1>1. OwnersOK(owner, place, used, FALSE)
    BY DEF HomesOK
  <1> QED BY <1>1 DEF OwnersOK, Owners, Places

LEMMA CreateKeeps ==
  ASSUME IInv, NEW f \in Name, NEW n \in Length, Create(f, n)
  PROVE IInv'
  <1>1. PICK owner, place : HomesOK(owner, place)
    BY DEF IInv
  <1>2. TypeOK
    BY DEF IInv
  <1>3. PICK s : s = Lowest(used)
    OBVIOUS
  <1>4. PICK j : j = Reserve("create", f, s, NoBlocks, n)
    OBVIOUS
  <1>5. /\ used' = used \cup {s} /\ UNCHANGED <<disk, dir, open, failed>>
        /\ job = NoJob /\ job # Unmapped /\ ~Full(used)
    <2>1. job = NoJob /\ ~Full(used) /\ UNCHANGED <<disk, dir, open, failed>>
      BY DEF Create
    <2>2. used' = used \cup {s}
      BY <1>3 DEF Create, Allocated
    <2>3. QED BY <1>2, <2>1, <2>2, JobRecord
  <1>6. job' = j
    BY <1>3, <1>4 DEF Create
  <1>7. s \in Sector /\ s \notin used /\ s # 0 /\ s \notin System
    BY <1>2, <1>3, <1>5, TypeFacts, LowestIsFree DEF System, FreeMapSector
  <1>8. NoBlocks \in Roots /\ \A node \in Root : NoBlocks[node] = 0
    <2>1. 0 \in Sector
      BY <1>2, TypeFacts
    <2>2. QED BY <2>1 DEF NoBlocks, Roots
  <1>9. /\ owner \in Owners /\ place \in Places /\ owner[s] = 0
        /\ \A t \in Sector : owner[t] # 0 => t \notin System /\ t \in used
    BY <1>1, <1>2, <1>5, <1>7, FreeUnowned
  <1>10. /\ j.op = "create" /\ j.sector = s /\ j.at = 0 /\ j.depth = 1
         /\ j \in Jobs /\ j \notin {NoJob, Unmapped}
         /\ \A node \in Root : j.ptr[node] = NoBlocks[node]
         /\ \A node \in Node \ Root : j.ptr[node] = 0
    BY <1>4, <1>7, <1>8, ReserveIs
  <1>11. /\ \A node \in Node : j.ptr[node] = 0
         /\ \A u : WalkOK(disk, u, j)
    BY <1>8, <1>10, WalkStarts
  <1>12. PICK owner2, place2 : Given(owner, place, owner2, place2, s, s, Itself)
    BY <1>7, <1>9, Give
  <1>13. Kept(owner, disk, disk)
    BY DEF Kept
  <1>14. Frame(owner, place, disk, owner2, place2, disk, Owned)
    BY <1>7, <1>9, <1>12, <1>13, GiveFrame
  <1>15. TypeOK'
    <2>1. used' \in SUBSET Sector /\ System \subseteq used'
      BY <1>2, <1>5, <1>7, TypeFacts
    <2>2. QED BY <1>2, <1>5, <1>6, <1>10, <2>1 DEF TypeOK
  <1>16. OwnersOK(owner2, place2, used', job' = Unmapped)
    BY <1>5, <1>7, <1>9, <1>12 DEF OwnersOK, Owners, Places, Given
  <1>17. ASSUME NEW g \in Name, dir[g] # 0
         PROVE /\ InodeOK(owner2, place2, disk, dir[g])
               /\ open[g] # Closed => MemoryOK(owner2, place2, disk, dir[g], open[g])
               /\ dir[g] # s
    <2>1. dir[g] \in Owned /\ dir[g] \in used
      BY <1>1, <1>2, <1>5, <1>17, DirOwned DEF Owned
    <2>2. QED BY <1>1, <1>2, <1>7, <1>14, <1>17, <2>1, FrameFile
  <1>18. FilesOK(owner2, place2, disk, dir) /\ OpenOK(owner2, place2, disk, dir, open)
    BY <1>1, <1>17 DEF FilesOK, OpenOK, HomesOK
  <1>19. TablesOK(owner2, place2, disk)
    <2>1. Itself \notin Table
      BY ItselfIsNoNode, TableFacts
    <2>2. DiskOK(disk) /\ TablesOK(owner, place, disk)
      BY <1>1, <1>2, TypeFacts DEF HomesOK
    <2>3. QED BY <1>7, <1>9, <1>12, <1>13, <2>1, <2>2, GiveTables
  <1>20. LeavesOK(owner2, place2, disk, dir)
    BY <1>1, <1>12, ItselfIsNoNode DEF HomesOK, LeavesOK, Given
  <1>21. JobOK(owner2, place2, disk, used', dir, open, j)
    <2>1. Homed(owner2, place2, j.ptr, s, Node)
      BY <1>11 DEF Homed
    <2>2. \A g \in Name : dir[g] # s
      BY <1>7, <1>17
    <2>3. QED BY <1>7, <1>10, <1>11, <1>12, <2>1, <2>2 DEF JobOK, Given
  <1>22. HomesOK(owner2, place2)'
    BY <1>5, <1>6, <1>16, <1>18, <1>19, <1>20, <1>21 DEF HomesOK
  <1> QED BY <1>15, <1>22 DEF IInv

(* The inode a write works on, read from the disk when the file is not     *)
(* open.                                                                   *)
LEMMA InMemoryOK ==
  ASSUME TypeOK, NEW owner, NEW place, HomesOK(owner, place), NEW f \in Name, dir[f] # 0
  PROVE /\ InMemory(f) \in [kind : {"open"}, len : Length, root : [Root -> Sector]]
        /\ InMemory(f).len \in Length /\ InMemory(f).root \in Roots /\ InMemory(f) # Closed
        /\ MemoryOK(owner, place, disk, dir[f], InMemory(f))
        /\ open[f] # Closed => InMemory(f) = open[f]
  <1>1. CASE open[f] = Closed
    <2>1. f \in Files
      BY DEF Files, Exists
    <2>2. /\ OnDisk(f).len \in Length /\ OnDisk(f).root \in Roots
          /\ Homed(owner, place, OnDisk(f).root, dir[f], Root)
      BY <2>1, FileBlocks
    <2>3. InMemory(f) = [kind |-> "open", len |-> OnDisk(f).len, root |-> OnDisk(f).root]
      BY <1>1 DEF InMemory
    <2>4. InMemory(f) # Closed
      BY <2>3 DEF Closed
    <2>5. InMemory(f).len = OnDisk(f).len /\ InMemory(f).root = OnDisk(f).root
      BY <2>3
    <2>6. MemoryOK(owner, place, disk, dir[f], InMemory(f))
      BY <2>2, <2>5 DEF MemoryOK, OnDisk
    <2>7. QED BY <1>1, <2>2, <2>3, <2>4, <2>5, <2>6 DEF Roots
  <1>2. CASE open[f] # Closed
    <2>1. InMemory(f) = open[f]
      BY <1>2 DEF InMemory
    <2>2. open[f] \in [kind : {"open"}, len : Length, root : [Root -> Sector]]
      BY <1>2 DEF TypeOK
    <2>3. MemoryOK(owner, place, disk, dir[f], open[f])
      BY <1>2 DEF HomesOK, OpenOK
    <2>4. QED BY <1>2, <2>1, <2>2, <2>3 DEF Roots
  <1> QED BY <1>1, <1>2

LEMMA WritePastKeeps ==
  ASSUME IInv, NEW f \in Name, NEW n \in Lengths, WritePast(f, n)
  PROVE IInv'
  <1>1. PICK owner, place : HomesOK(owner, place)
    BY DEF IInv
  <1>2. TypeOK
    BY DEF IInv
  <1>3. PICK m : m = InMemory(f)
    OBVIOUS
  <1>4. PICK j : j = Reserve("write", f, dir[f], m.root, n)
    OBVIOUS
  <1>5. /\ job = NoJob /\ dir[f] # 0 /\ n > m.len
        /\ UNCHANGED <<used, disk, dir, failed>>
    BY <1>3 DEF WritePast, Exists
  <1>6. open' = [open EXCEPT ![f] = m]
    BY <1>3 DEF WritePast
  <1>7. job' = j
    BY <1>3, <1>4 DEF WritePast
  <1>8. /\ m \in [kind : {"open"}, len : Length, root : [Root -> Sector]]
        /\ m.len \in Length /\ m.root \in Roots /\ m # Closed
        /\ MemoryOK(owner, place, disk, dir[f], m)
    BY <1>1, <1>2, <1>3, <1>5, InMemoryOK
  <1>9. /\ owner \in Owners /\ place \in Places /\ job # Unmapped
        /\ dir[f] \in Sector /\ owner[dir[f]] = dir[f] /\ place[dir[f]] = Itself
    BY <1>1, <1>2, <1>5, FreeUnowned, DirOwned, JobRecord
  <1>10. n \in Length
    BY DEF Length
  <1>11. /\ j.op = "write" /\ j.file = f /\ j.sector = dir[f] /\ j.len = n
         /\ j.at = 0 /\ j.depth = 1 /\ j \in Jobs /\ j \notin {NoJob, Unmapped}
         /\ \A node \in Root : j.ptr[node] = m.root[node]
         /\ \A node \in Node \ Root : j.ptr[node] = 0
    <2> DEFINE s == dir[f]
               r == m.root
    <2>1. s \in Sector /\ r \in Roots /\ j = Reserve("write", f, s, r, n)
      BY <1>4, <1>8, <1>9
    <2> HIDE DEF s, r
    <2>2. /\ j.op = "write" /\ j.file = f /\ j.sector = s /\ j.len = n
          /\ j.at = 0 /\ j.depth = 1 /\ j \in Jobs /\ j \notin {NoJob, Unmapped}
          /\ \A node \in Root : j.ptr[node] = r[node]
          /\ \A node \in Node \ Root : j.ptr[node] = 0
      BY <1>10, <2>1, ReserveIs
    <2>3. QED BY <2>2 DEF s, r
  <1>12. WalkOK(disk, used, j)
    BY <1>11, WalkStarts
  <1>13. open'[f] = m /\ \A g \in Name : g # f => open'[g] = open[g]
    BY <1>2, <1>6 DEF TypeOK
  <1>14. TypeOK'
    <2>1. DOMAIN open' = Name
      BY <1>2, <1>6 DEF TypeOK
    <2>2. QED BY <1>2, <1>5, <1>7, <1>8, <1>11, <1>13, <2>1 DEF TypeOK
  <1>15. OpenOK(owner, place, disk, dir, open')
    BY <1>1, <1>5, <1>8, <1>13 DEF HomesOK, OpenOK
  <1>16. JobOK(owner, place, disk, used, dir, open', j)
    <2>1. Homed(owner, place, j.ptr, dir[f], Node)
      BY <1>8, <1>11 DEF Homed, MemoryOK
    <2>2. m.len < n
      BY <1>5, <1>8, <1>10, LengthFacts
    <2>3. QED BY <1>5, <1>8, <1>9, <1>11, <1>12, <1>13, <2>1, <2>2 DEF JobOK
  <1>17. OwnersOK(owner, place, used, FALSE) /\ job' # Unmapped
    BY <1>1, <1>7, <1>9, <1>11 DEF HomesOK
  <1>18. HomesOK(owner, place)'
    BY <1>1, <1>5, <1>7, <1>15, <1>16, <1>17 DEF HomesOK
  <1> QED BY <1>14, <1>18 DEF IInv

(* Data written to a block of a file disturbs nothing but the block. *)
LEMMA PutData ==
  ASSUME NEW owner, NEW place, NEW d, DiskOK(d), TablesOK(owner, place, d),
         NEW s \in Sector, NEW x, place[s] \in Node \ Table,
         NEW d2, d2[s] = x, \A t \in Sector : t # s => d2[t] = d[t]
  PROVE /\ Frame(owner, place, d, owner, place, d2, Owned)
        /\ TablesOK(owner, place, d2)
  <1>1. Frame(owner, place, d, owner, place, d2, Owned)
    BY ItselfIsNoNode DEF Frame
  <1>2. TablesOK(owner, place, d2)
    BY DEF TablesOK
  <1> QED BY <1>1, <1>2

LEMMA WriteInsideKeeps ==
  ASSUME IInv, NEW f \in Name, NEW n \in Lengths, WriteInside(f, n)
  PROVE IInv' /\ NoneForgotten
  <1>1. PICK owner, place : HomesOK(owner, place)
    BY DEF IInv
  <1>2. TypeOK
    BY DEF IInv
  <1>3. PICK m : m = InMemory(f)
    OBVIOUS
  <1>4. PICK s : s = PointersIn(disk, m.root)[Leaf(n - 1)]
    OBVIOUS
  <1>5. /\ job = NoJob /\ dir[f] # 0 /\ n \in 1 .. m.len
        /\ UNCHANGED <<used, dir, job, failed>>
    BY <1>3 DEF WriteInside, Exists
  <1>6. open' = [open EXCEPT ![f] = m] /\ disk' = [disk EXCEPT ![s] = Data(f)]
    BY <1>3, <1>4 DEF WriteInside, PointersOf
  <1>7. /\ m \in [kind : {"open"}, len : Length, root : [Root -> Sector]]
        /\ m.len \in Length /\ m.root \in Roots /\ m # Closed
        /\ MemoryOK(owner, place, disk, dir[f], m)
    BY <1>1, <1>2, <1>3, <1>5, InMemoryOK
  <1>8. /\ owner \in Owners /\ place \in Places /\ job # Unmapped
        /\ dir[f] \in Sector
        /\ DiskOK(disk) /\ TablesOK(owner, place, disk)
        /\ \A t \in Sector : owner[t] # 0 => t \notin System
    BY <1>1, <1>2, <1>5, FreeUnowned, DirOwned, JobRecord, TypeFacts DEF HomesOK
  <1>9. n - 1 \in Block /\ Leaf(n - 1) \in Needs(m.len) /\ Leaf(n - 1) \in Node \ Table
    <2>1. n - 1 \in Block /\ n - 1 < m.len /\ m.len \in Nat /\ (m.len - 1 \in Block \/ m.len = 0)
      BY <1>5, <1>7, LengthFacts
    <2>2. QED BY <2>1, LeafNeeded, TableFacts
  <1>10. s \in Sector /\ s # 0 /\ owner[s] = dir[f] /\ place[s] = Leaf(n - 1)
    <2>1. Homed(owner, place, m.root, dir[f], Root)
      BY <1>7 DEF MemoryOK
    <2>2. Homed(owner, place, PointersIn(disk, m.root), dir[f], Node)
      BY <1>5, <1>7, <1>8, <2>1, HomedBlocks
    <2>3. s \in Sector
      BY <1>4, <1>7, <1>8, <1>9, PointersType
    <2>4. s # 0
      <3>1. f \in Files
        BY <1>5 DEF Files, Exists
      <3>2. PointersIn(disk, OnDisk(f).root)[Leaf(n - 1)] # 0
        BY <1>1, <1>2, <1>7, <1>9, <3>1, FileBlocks DEF MemoryOK, OnDisk, PointersOf
      <3>3. \A node \in Needs(m.len) :
              PointersIn(disk, m.root)[node] = PointersIn(disk, OnDisk(f).root)[node]
        <4> DEFINE r == m.root
                   q == OnDisk(f).root
                   k == m.len
        <4>1. k \in Length /\ \A node \in Root : node \in Needs(k) => r[node] = q[node]
          BY <1>7 DEF MemoryOK, OnDisk
        <4> HIDE DEF r, q, k
        <4>2. \A node \in Needs(k) : PointersIn(disk, r)[node] = PointersIn(disk, q)[node]
          BY <4>1, SamePointers
        <4>3. QED BY <4>2 DEF r, q, k
      <3>4. QED BY <1>4, <1>9, <3>2, <3>3
    <2>5. QED BY <1>4, <1>9, <2>2, <2>3, <2>4 DEF Homed
  <1>11. s \notin System
    BY <1>5, <1>8, <1>10
  <1>12. PICK d2 : d2 = disk'
    OBVIOUS
  <1>13. d2[s] = Data(f) /\ \A t \in Sector : t # s => d2[t] = disk[t]
    <2>1. disk \in [Sector -> Content]
      BY <1>2, TypeFacts
    <2>2. QED BY <1>6, <1>10, <1>12, <2>1
  <1>14. d2 \in [Sector -> Content]
    <2>1. Data(f) \in Content
      BY DEF Content
    <2>2. QED BY <1>2, <1>6, <1>12, <2>1, TypeFacts
  <1>15. open'[f] = m /\ \A g \in Name : g # f => open'[g] = open[g]
    BY <1>2, <1>6 DEF TypeOK
  <1>16. TypeOK'
    <2>1. RootDirSector \in System /\ RootDirSector \in Sector
      BY <1>2, TypeFacts DEF System, RootDirSector
    <2>2. disk'[RootDirSector].kind = "inode"
      BY <1>2, <1>11, <1>12, <1>13, <2>1 DEF TypeOK
    <2>3. DOMAIN open' = Name
      BY <1>2, <1>6 DEF TypeOK
    <2>4. QED BY <1>2, <1>5, <1>7, <1>12, <1>14, <1>15, <2>2, <2>3 DEF TypeOK
  <1>17. /\ Frame(owner, place, disk, owner, place, d2, Owned)
         /\ TablesOK(owner, place, d2)
    BY <1>8, <1>9, <1>10, <1>13, PutData
  <1>18. ASSUME NEW g \in Name, dir[g] # 0
         PROVE /\ InodeOK(owner, place, d2, dir[g])
               /\ d2[dir[g]] = disk[dir[g]]
               /\ open[g] # Closed => MemoryOK(owner, place, d2, dir[g], open[g])
    <2>1. dir[g] \in Owned
      BY <1>1, <1>2, <1>18, DirOwned DEF Owned
    <2>2. QED BY <1>1, <1>2, <1>17, <1>18, <2>1, FrameFile
  <1>19. FilesOK(owner, place, d2, dir)
    BY <1>1, <1>18 DEF FilesOK, HomesOK
  <1>20. OpenOK(owner, place, d2, dir, open')
    <2>1. MemoryOK(owner, place, d2, dir[f], m)
      BY <1>5, <1>7, <1>18 DEF MemoryOK
    <2>2. QED BY <1>1, <1>5, <1>15, <1>18, <2>1 DEF OpenOK, HomesOK
  <1>21. LeavesOK(owner, place, d2, dir)
    BY <1>1, <1>10, <1>13 DEF LeavesOK, HomesOK
  <1>22. JobOK(owner, place, d2, used, dir, open', job)
    BY <1>5 DEF JobOK
  <1>23. HomesOK(owner, place)'
    BY <1>1, <1>5, <1>12, <1>17, <1>19, <1>20, <1>21, <1>22 DEF HomesOK
  <1>24. Held(disk, dir) \subseteq Held(d2, dir)
    <2>1. \A g \in Name : dir[g] # 0 => dir[g] \in Owned
      BY <1>1, <1>2, DirOwned DEF Owned
    <2>2. QED BY <1>1, <1>2, <1>17, <2>1, HeldKept
  <1>25. NoneForgotten
    BY <1>5, <1>12, <1>24 DEF NoneForgotten
  <1> QED BY <1>16, <1>23, <1>25 DEF IInv

(* quit and a new shell: what is on the disk stays, what was in memory is  *)
(* gone.                                                                   *)
LEMMA RestartKeeps ==
  ASSUME IInv, Restart
  PROVE IInv'
  <1>1. PICK owner, place : HomesOK(owner, place)
    BY DEF IInv
  <1>2. TypeOK
    BY DEF IInv
  <1>3. /\ job \in {NoJob, Unmapped} /\ UNCHANGED <<disk, dir, failed>>
        /\ open' = [f \in Name |-> Closed]
        /\ \/ used' = used /\ job' = job
           \/ used' = System /\ job' = Unmapped
    BY DEF Restart
  <1>4. System \subseteq Sector
    BY <1>2, TypeFacts
  <1>5. job' \in {NoJob, Unmapped} /\ \A f \in Name : open'[f] = Closed
    BY <1>3
  <1>6. TypeOK'
    <2>1. used' \in SUBSET Sector /\ System \subseteq used'
      BY <1>2, <1>3, <1>4, TypeFacts
    <2>2. QED BY <1>2, <1>3, <1>5, <2>1 DEF TypeOK
  <1>7. OwnersOK(owner, place, used', job' = Unmapped)
    <2>1. CASE used' = used /\ job' = job
      BY <1>1, <2>1 DEF HomesOK
    <2>2. CASE job' = Unmapped
      BY <1>1, <2>2 DEF HomesOK, OwnersOK
    <2>3. QED BY <1>3, <2>1, <2>2
  <1>8. OpenOK(owner, place, disk, dir, open')
    BY <1>5 DEF OpenOK
  <1>9. JobOK(owner, place, disk, used', dir, open', job')
    BY <1>5 DEF JobOK
  <1>10. HomesOK(owner, place)'
    BY <1>1, <1>3, <1>7, <1>8, <1>9 DEF HomesOK
  <1> QED BY <1>6, <1>10 DEF IInv

-----------------------------------------------------------------------------
(* The sectors of an inode that is given up are forgotten, also those that *)
(* stay marked.                                                            *)
Forgotten(owner, owner2, o) ==
  owner2 \in Owners /\ \A s \in Sector : owner2[s] = IF owner[s] = o THEN 0 ELSE owner[s]

LEMMA Forget ==
  ASSUME NEW owner \in Owners, NEW o
  PROVE \E owner2 : Forgotten(owner, owner2, o)
  <1> DEFINE owner2 == [s \in Sector |-> IF owner[s] = o THEN 0 ELSE owner[s]]
  <1>1. 0 \in Sector
    BY InodeAssumption DEF Sector
  <1>2. owner2 \in Owners /\ \A s \in Sector : owner2[s] = IF owner[s] = o THEN 0 ELSE owner[s]
    BY <1>1 DEF Owners
  <1> HIDE DEF owner2
  <1> QED BY <1>2 DEF Forgotten

(* d2 may hold anything in the forgotten sectors. *)
LEMMA ForgetKeeps ==
  ASSUME NEW owner \in Owners, NEW place \in Places, NEW owner2, NEW o,
         Forgotten(owner, owner2, o),
         NEW d, DiskOK(d), TablesOK(owner, place, d), NEW names, LeavesOK(owner, place, d, names),
         NEW d2, Kept(owner2, d, d2),
         NEW names2, \A f \in Name : names[f] # o /\ names[f] # 0 => names2[f] = names[f]
  PROVE /\ Frame(owner, place, d, owner2, place, d2, Owned \ {o})
        /\ TablesOK(owner2, place, d2)
        /\ LeavesOK(owner2, place, d2, names2)
  <1>1. \A s \in Sector : owner2[s] # 0 => owner[s] = owner2[s] /\ owner[s] # o /\ d2[s] = d[s]
    BY DEF Forgotten, Kept
  <1>2. Frame(owner, place, d, owner2, place, d2, Owned \ {o})
    <2>1. \A s \in Sector : owner[s] \in Owned \ {o} => owner2[s] = owner[s] /\ d2[s] = d[s]
      BY DEF Forgotten, Owned, Kept
    <2>2. QED BY <2>1 DEF Frame
  <1>3. TablesOK(owner2, place, d2)
    <2> SUFFICES ASSUME NEW t \in Sector, owner2[t] # 0, place[t] \in Table,
                        NEW c \in Children(place[t]), EntryAt(d2[t], Slot(c)) # 0
                 PROVE /\ owner2[EntryAt(d2[t], Slot(c))] = owner2[t]
                       /\ place[EntryAt(d2[t], Slot(c))] = c
      BY DEF TablesOK
    <2> DEFINE q == EntryAt(d[t], Slot(c))
    <2>1. q \in Sector
      BY TableFacts, EntryType DEF DiskOK
    <2>2. EntryAt(d2[t], Slot(c)) = q /\ q # 0
      BY <1>1
    <2> HIDE DEF q
    <2>3. owner[q] = owner[t] /\ place[q] = c
      BY <1>1, <2>2 DEF TablesOK, q
    <2>4. owner2[q] = owner[q]
      BY <1>1, <2>1, <2>3 DEF Forgotten
    <2>5. QED BY <1>1, <2>2, <2>3, <2>4
  <1>4. LeavesOK(owner2, place, d2, names2)
    BY <1>1 DEF LeavesOK
  <1> QED BY <1>2, <1>3, <1>4

LEMMA RemoveKeeps ==
  ASSUME IInv, NEW f \in Name, Remove(f)
  PROVE IInv'
  <1>1. PICK owner, place : HomesOK(owner, place)
    BY DEF IInv
  <1>2. TypeOK
    BY DEF IInv
  <1>3. PICK o : o = dir[f]
    OBVIOUS
  <1>4. /\ job = NoJob /\ o # 0 /\ UNCHANGED <<disk, job, failed>>
        /\ dir' = [dir EXCEPT ![f] = 0] /\ open' = [open EXCEPT ![f] = Closed]
        /\ used' = used \ Released(f)
    BY <1>3 DEF Remove, Exists
  <1>5. /\ owner \in Owners /\ place \in Places /\ job # Unmapped
        /\ o \in Sector /\ owner[o] = o
        /\ DiskOK(disk) /\ TablesOK(owner, place, disk) /\ LeavesOK(owner, place, disk, dir)
        /\ \A s \in Sector : owner[s] # 0 => s \notin System /\ s \in used
    BY <1>1, <1>2, <1>3, <1>4, FreeUnowned, DirOwned, JobRecord, TypeFacts DEF HomesOK
  <1>6. f \in Files
    BY <1>3, <1>4 DEF Files, Exists
  <1>7. \A s \in Released(f) : owner[s] = o
    <2>1. Released(f) = Occupies(f)
      BY DEF Released, Occupies, BlocksOf
    <2>2. QED BY <1>1, <1>2, <1>3, <1>6, <2>1, OccupiesOwned
  <1>8. Released(f) \cap System = {}
    <2>1. Released(f) = Occupies(f)
      BY DEF Released, Occupies, BlocksOf
    <2>2. QED BY <1>1, <1>2, <1>6, <2>1, OccupiesOwned
  <1>9. PICK owner2 : Forgotten(owner, owner2, o)
    BY <1>5, Forget
  <1>10. dir'[f] = 0 /\ \A g \in Name : g # f => dir'[g] = dir[g] /\ dir[g] # o
    BY <1>1, <1>2, <1>3, <1>4, TypeFacts DEF HomesOK, FilesOK
  <1>11. open'[f] = Closed /\ \A g \in Name : g # f => open'[g] = open[g]
    BY <1>2, <1>4, TypeFacts
  <1>12. TypeOK'
    <2>1. used' \in SUBSET Sector /\ System \subseteq used'
      BY <1>2, <1>4, <1>8, TypeFacts
    <2>2. dir' \in [Name -> Sector] /\ DOMAIN open' = Name
      BY <1>2, <1>4, TypeFacts
    <2>3. QED BY <1>2, <1>4, <1>11, <2>1, <2>2 DEF TypeOK
  <1>13. /\ Frame(owner, place, disk, owner2, place, disk, Owned \ {o})
         /\ TablesOK(owner2, place, disk)
         /\ LeavesOK(owner2, place, disk, dir')
    <2> DEFINE names2 == dir'
    <2>1. /\ \A g \in Name : dir[g] # o /\ dir[g] # 0 => names2[g] = dir[g]
          /\ Kept(owner2, disk, disk)
      BY <1>3, <1>10 DEF Kept
    <2> HIDE DEF names2
    <2>2. /\ Frame(owner, place, disk, owner2, place, disk, Owned \ {o})
          /\ TablesOK(owner2, place, disk)
          /\ LeavesOK(owner2, place, disk, names2)
      BY <1>5, <1>9, <2>1, ForgetKeeps
    <2>3. QED BY <2>2 DEF names2
  <1>14. ASSUME NEW g \in Name, dir'[g] # 0
         PROVE /\ InodeOK(owner2, place, disk, dir[g]) /\ dir'[g] = dir[g] /\ dir[g] # 0
               /\ open[g] # Closed => MemoryOK(owner2, place, disk, dir[g], open[g])
    <2>1. dir'[g] = dir[g] /\ dir[g] # 0 /\ dir[g] # o
      BY <1>10, <1>14
    <2>2. dir[g] \in Owned \ {o}
      BY <1>1, <1>2, <2>1, DirOwned DEF Owned
    <2>3. QED BY <1>1, <1>2, <1>13, <2>1, <2>2, FrameFile
  <1>15. FilesOK(owner2, place, disk, dir')
    BY <1>1, <1>14 DEF FilesOK, HomesOK
  <1>16. OpenOK(owner2, place, disk, dir', open')
    <2> SUFFICES ASSUME NEW g \in Name, open'[g] # Closed
                 PROVE dir'[g] # 0 /\ MemoryOK(owner2, place, disk, dir'[g], open'[g])
      BY DEF OpenOK
    <2>1. g # f /\ open'[g] = open[g] /\ dir'[g] = dir[g]
      BY <1>10, <1>11
    <2>2. dir[g] # 0
      BY <1>1, <2>1 DEF HomesOK, OpenOK
    <2>3. QED BY <1>14, <2>1, <2>2
  <1>17. OwnersOK(owner2, place, used', FALSE)
    <2>1. \A s \in Sector : owner2[s] # 0 => s \notin System /\ s \in used'
      BY <1>4, <1>5, <1>7, <1>9 DEF Forgotten
    <2>2. QED BY <1>5, <1>9, <2>1 DEF OwnersOK, Forgotten, Owners, Places
  <1>18. JobOK(owner2, place, disk, used', dir', open', job)
    BY <1>4 DEF JobOK
  <1>19. HomesOK(owner2, place)'
    BY <1>4, <1>5, <1>13, <1>15, <1>16, <1>17, <1>18 DEF HomesOK
  <1> QED BY <1>12, <1>19 DEF IInv

-----------------------------------------------------------------------------
(* The ends of a request.                                                  *)

LEMMA JobFacts ==
  ASSUME TypeOK, NEW owner, NEW place, HomesOK(owner, place), job.op \in {"create", "write"}
  PROVE /\ job \in Jobs /\ job \notin {NoJob, Unmapped} /\ job # Unmapped
        /\ owner \in Owners /\ place \in Places
        /\ \A s \in Sector : owner[s] # 0 => s \notin System /\ s \in used
        /\ \A s \in Sector \ used : owner[s] = 0
        /\ DiskOK(disk) /\ TablesOK(owner, place, disk) /\ LeavesOK(owner, place, disk, dir)
        /\ job.sector \in Owned /\ job.sector \notin System
        /\ owner[job.sector] = job.sector /\ place[job.sector] = Itself
        /\ Homed(owner, place, job.ptr, job.sector, Node) /\ WalkOK(disk, used, job)
        /\ job.ptr \in [Node -> Sector] /\ job.len \in Length /\ job.file \in Name
        /\ job.at \in Nat /\ job.depth \in 1 .. 3
  <1>1. job \notin {NoJob, Unmapped}
    BY JobRecord
  <1>2. job \in Jobs
    BY <1>1, TypeFacts
  <1>3. /\ owner \in Owners /\ place \in Places
        /\ \A s \in Sector : owner[s] # 0 => s \notin System /\ s \in used
        /\ \A s \in Sector \ used : owner[s] = 0
    BY <1>1, FreeUnowned
  <1>4. DiskOK(disk) /\ TablesOK(owner, place, disk) /\ LeavesOK(owner, place, disk, dir)
    BY TypeFacts DEF HomesOK
  <1>5. /\ job.sector # 0 /\ owner[job.sector] = job.sector /\ place[job.sector] = Itself
        /\ Homed(owner, place, job.ptr, job.sector, Node) /\ WalkOK(disk, used, job)
    BY <1>1 DEF HomesOK, JobOK
  <1>6. /\ job.ptr \in [Node -> Sector] /\ job.len \in Length /\ job.sector \in Sector
        /\ job.file \in Name /\ job.at \in Nat /\ job.depth \in 1 .. 3
    BY <1>2 DEF Jobs
  <1> QED BY <1>1, <1>2, <1>3, <1>4, <1>5, <1>6 DEF Owned

LEMMA RootPartIs ==
  ASSUME NEW ptr \in [Node -> Sector]
  PROVE RootPart(ptr) \in Roots /\ \A node \in Root : RootPart(ptr)[node] = ptr[node]
  BY RootNode DEF RootPart, Roots

(* A create that fails, or finds its name taken, gives up its inode's      *)
(* sector with all that was reserved for it.                               *)
GiveUp ==
  /\ job.op = "create" /\ used' = used \ {job.sector} /\ UNCHANGED <<dir, open>>
  /\ job' = NoJob /\ failed' = TRUE
  /\ disk' \in [Sector -> Content] /\ \A s \in Sector : s # job.sector => disk'[s] = disk[s]

LEMMA GiveUpKeeps ==
  ASSUME IInv, GiveUp
  PROVE IInv'
  <1>1. PICK owner, place : HomesOK(owner, place)
    BY DEF IInv
  <1>2. TypeOK
    BY DEF IInv
  <1>3. PICK o : o = job.sector
    OBVIOUS
  <1>4. PICK d2 : d2 = disk'
    OBVIOUS
  <1>5. /\ job.op = "create" /\ used' = used \ {job.sector} /\ UNCHANGED <<dir, open>>
        /\ job' = NoJob /\ failed' = TRUE
        /\ d2 \in [Sector -> Content] /\ \A s \in Sector : s # o => d2[s] = disk[s]
    BY <1>3, <1>4 DEF GiveUp
  <1>6. /\ owner \in Owners /\ place \in Places
        /\ \A s \in Sector : owner[s] # 0 => s \notin System /\ s \in used
        /\ DiskOK(disk) /\ TablesOK(owner, place, disk) /\ LeavesOK(owner, place, disk, dir)
        /\ o \in Owned /\ o \notin System /\ owner[o] = o
    BY <1>5, <1>1, <1>2, <1>3, JobFacts
  <1>7. \A g \in Name : dir[g] # o
    BY <1>5, <1>1, <1>2, <1>3, JobFacts DEF HomesOK, JobOK
  <1>8. PICK owner2 : Forgotten(owner, owner2, o)
    BY <1>6, Forget
  <1>9. Kept(owner2, disk, d2)
    BY <1>5, <1>6, <1>8 DEF Forgotten, Kept
  <1>10. /\ Frame(owner, place, disk, owner2, place, d2, Owned \ {o})
        /\ TablesOK(owner2, place, d2)
        /\ LeavesOK(owner2, place, d2, dir)
    <2>1. PICK names2 : names2 = dir
      OBVIOUS
    <2>2. \A g \in Name : dir[g] # o /\ dir[g] # 0 => names2[g] = dir[g]
      BY <2>1
    <2>3. /\ Frame(owner, place, disk, owner2, place, d2, Owned \ {o})
          /\ TablesOK(owner2, place, d2)
          /\ LeavesOK(owner2, place, d2, names2)
      BY <1>6, <1>8, <1>9, <2>2, ForgetKeeps, ZenonT(60)
    <2>4. QED BY <2>1, <2>3
  <1>11. TypeOK'
    <2>1. used' \in SUBSET Sector /\ System \subseteq used'
      BY <1>5, <1>2, <1>3, <1>6, TypeFacts
    <2>2. RootDirSector \in Sector /\ RootDirSector # o
      BY <1>2, <1>6, TypeFacts DEF System, RootDirSector
    <2>3. disk'[RootDirSector].kind = "inode"
      BY <1>2, <1>4, <1>5, <2>2 DEF TypeOK
    <2>4. QED BY <1>2, <1>4, <1>5, <2>1, <2>3 DEF TypeOK
  <1>12. ASSUME NEW g \in Name, dir[g] # 0
         PROVE /\ InodeOK(owner2, place, d2, dir[g])
               /\ open[g] # Closed => MemoryOK(owner2, place, d2, dir[g], open[g])
    <2>1. dir[g] \in Owned \ {o}
      BY <1>1, <1>2, <1>7, <1>12, DirOwned DEF Owned
    <2>2. QED BY <1>1, <1>2, <1>10, <1>12, <2>1, FrameFile
  <1>13. FilesOK(owner2, place, d2, dir) /\ OpenOK(owner2, place, d2, dir, open)
    BY <1>1, <1>12 DEF FilesOK, OpenOK, HomesOK
  <1>14. OwnersOK(owner2, place, used', FALSE)
    <2>1. \A s \in Sector : owner2[s] # 0 => s \notin System /\ s \in used'
      BY <1>5, <1>3, <1>6, <1>8 DEF Forgotten
    <2>2. QED BY <1>6, <1>8, <2>1 DEF OwnersOK, Forgotten, Owners, Places
  <1>15. JobOK(owner2, place, d2, used', dir, open, job')
    BY <1>5 DEF JobOK
  <1>16. job' # Unmapped
    BY <1>5, <1>2, JobRecord
  <1>17. HomesOK(owner2, place)'
    BY <1>4, <1>5, <1>10, <1>13, <1>14, <1>15, <1>16 DEF HomesOK
  <1> QED BY <1>11, <1>17 DEF IInv

LEMMA FailKeeps ==
  ASSUME IInv, Fail
  PROVE IInv'
  <1>1. PICK owner, place : HomesOK(owner, place)
    BY DEF IInv
  <1>2. TypeOK
    BY DEF IInv
  <1>3. /\ job.op \in {"create", "write"} /\ job' = NoJob /\ failed' = TRUE
        /\ UNCHANGED <<disk, dir>>
        /\ \/ job.op = "create" /\ used' = used \ {job.sector} /\ UNCHANGED open
           \/ /\ job.op = "write" /\ UNCHANGED used
              /\ open' = [open EXCEPT ![job.file].root = RootPart(job.ptr)]
    BY DEF Fail, Walking
  <1>4. CASE job.op = "create" /\ used' = used \ {job.sector} /\ UNCHANGED open
    <2>1. disk' \in [Sector -> Content] /\ \A s \in Sector : s # job.sector => disk'[s] = disk[s]
      BY <1>2, <1>3, TypeFacts
    <2>2. GiveUp
      BY <1>3, <1>4, <2>1 DEF GiveUp
    <2>3. QED BY <2>2, GiveUpKeeps
  <1>5. CASE /\ job.op = "write" /\ UNCHANGED used
             /\ open' = [open EXCEPT ![job.file].root = RootPart(job.ptr)]
    <2>1. PICK f : f = job.file
      OBVIOUS
    <2>2. PICK m : m = open[f]
      OBVIOUS
    <2>3. PICK r : r = RootPart(job.ptr)
      OBVIOUS
    <2>4. /\ f \in Name /\ job.ptr \in [Node -> Sector]
          /\ Homed(owner, place, job.ptr, job.sector, Node)
          /\ DiskOK(disk)
      BY <1>1, <1>2, <1>3, <2>1, JobFacts
    <2>5. /\ dir[f] = job.sector /\ m # Closed
          /\ \A node \in Root : m.root[node] # 0 => job.ptr[node] = m.root[node]
      BY <1>1, <1>2, <1>3, <1>5, <2>1, <2>2, JobFacts DEF HomesOK, JobOK
    <2>6. m \in [kind : {"open"}, len : Length, root : [Root -> Sector]]
      BY <1>2, <2>2, <2>4, <2>5 DEF TypeOK
    <2>7. /\ dir[f] # 0 /\ InodeOK(owner, place, disk, dir[f])
          /\ MemoryOK(owner, place, disk, dir[f], m)
      BY <1>1, <2>2, <2>4, <2>5 DEF HomesOK, OpenOK, FilesOK
    <2>8. r \in Roots /\ \A node \in Root : r[node] = job.ptr[node]
      BY <2>3, <2>4, RootPartIs
    <2>9. PICK m2 : m2 = [m EXCEPT !.root = r]
      OBVIOUS
    <2>10. /\ m2 \in [kind : {"open"}, len : Length, root : [Root -> Sector]]
           /\ m2.len = m.len /\ m2.root = r
      BY <2>6, <2>8, <2>9 DEF Roots
    <2>11. open'[f] = m2 /\ \A g \in Name : g # f => open'[g] = open[g]
      BY <1>2, <1>5, <2>1, <2>2, <2>3, <2>4, <2>9, TypeFacts
    <2>12. DOMAIN open' = Name
      BY <1>2, <1>5, TypeFacts
    <2>13. TypeOK'
      BY <1>2, <1>3, <1>5, <2>10, <2>11, <2>12 DEF TypeOK
    <2>14. MemoryOK(owner, place, disk, dir[f], m2)
      <3>1. Homed(owner, place, r, dir[f], Root)
        BY <2>4, <2>5, <2>8, RootNode DEF Homed
      <3>2. ASSUME NEW node \in Root, node \in Needs(m.len)
            PROVE r[node] = disk[dir[f]].root[node]
        <4>1. m.root[node] = disk[dir[f]].root[node] /\ m.len = disk[dir[f]].len
          BY <2>7, <3>2 DEF MemoryOK
        <4>2. PointersIn(disk, disk[dir[f]].root)[node] # 0
          BY <2>7, <3>2, <4>1 DEF InodeOK
        <4>3. disk[dir[f]].root[node] # 0
          BY <4>2, PointersStep
        <4>4. QED BY <2>5, <2>8, <4>1, <4>3
      <3>3. QED BY <2>7, <2>10, <3>1, <3>2 DEF MemoryOK
    <2>15. OpenOK(owner, place, disk, dir, open')
      BY <1>1, <2>4, <2>7, <2>11, <2>14 DEF HomesOK, OpenOK
    <2>16. JobOK(owner, place, disk, used, dir, open', job')
      BY <1>3 DEF JobOK
    <2>17. OwnersOK(owner, place, used, FALSE) /\ job' # Unmapped /\ job # Unmapped
      BY <1>1, <1>2, <1>3, JobFacts, JobRecord DEF HomesOK
    <2>18. HomesOK(owner, place)'
      BY <1>1, <1>3, <1>5, <2>15, <2>16, <2>17 DEF HomesOK
    <2>19. QED BY <2>13, <2>18 DEF IInv
  <1> QED BY <1>3, <1>4, <1>5

(* When every block was visited, the tables on the disk lead to exactly    *)
(* what inode_reserve has in its hands.                                    *)
LEMMA WalkDone ==
  ASSUME NEW owner \in Owners, NEW place \in Places, NEW d, NEW u, NEW j \in Jobs,
         NEW o \in Owned, j.at = j.len, WalkOK(d, u, j), Homed(owner, place, j.ptr, o, Node),
         NEW d2, \A s \in Sector : place[s] \in Table => d2[s] = d[s],
         NEW r, \A node \in Root : r[node] = j.ptr[node]
  PROVE \A node \in Needs(j.len) :
          PointersIn(d2, r)[node] = j.ptr[node] /\ j.ptr[node] # 0
  <1> DEFINE Q == PointersIn(d2, r)
             Good(node) == Q[node] = j.ptr[node]
  <1>1. /\ j.len \in Length /\ j.ptr \in [Node -> Sector]
        /\ \A node \in Needs(j.len) : j.ptr[node] # 0
        /\ \A table \in Table : table \in Needs(j.len) => Agree(d, j, table)
    BY DEF Jobs, WalkOK, Inside, Length
  <1>2. ASSUME NEW node \in Needs(j.len), node \in Root
        PROVE Good(node)
    BY <1>2, PointersStep
  <1>3. ASSUME NEW node \in Needs(j.len), node \notin Root
        PROVE /\ node \in Node /\ Up(node) \in Needs(j.len) /\ Up(node) \in Table
              /\ Up(node) \in Node /\ node \in Children(Up(node))
              /\ Up(node) \notin Root => Up(Up(node)) \in Root
    <2>1. node \in Node
      BY DEF Needs
    <2>2. QED BY <1>1, <1>3, <2>1, LengthFacts, NeedsUp, NodeFacts, TableFacts
  <1>4. ASSUME NEW node \in Needs(j.len), node \notin Root, Good(Up(node))
        PROVE Good(node)
    <2>1. Q[Up(node)] = j.ptr[Up(node)] /\ j.ptr[Up(node)] # 0
      BY <1>1, <1>3, <1>4
    <2>2. Q[node] = EntryAt(d2[j.ptr[Up(node)]], Slot(node))
      BY <1>3, <1>4, <2>1, PointersStep
    <2>3. j.ptr[Up(node)] \in Sector /\ place[j.ptr[Up(node)]] = Up(node)
      BY <1>1, <1>3, <1>4, <2>1 DEF Homed
    <2>4. d2[j.ptr[Up(node)]] = d[j.ptr[Up(node)]]
      BY <1>3, <1>4, <2>3
    <2>5. EntryAt(d[j.ptr[Up(node)]], Slot(node)) = j.ptr[node]
      BY <1>1, <1>3, <1>4 DEF Agree
    <2>6. QED BY <2>2, <2>4, <2>5
  <1> HIDE DEF Good, Q
  <1>5. ASSUME NEW node \in Needs(j.len)
        PROVE Good(node)
    <2>1. CASE node \in Root
      BY <1>2, <2>1
    <2>2. CASE node \notin Root
      <3>1. CASE Up(node) \in Root
        BY <1>2, <1>3, <1>4, <2>2, <3>1
      <3>2. CASE Up(node) \notin Root
        <4>1. Up(node) \in Needs(j.len) /\ Up(Up(node)) \in Needs(j.len) /\ Up(Up(node)) \in Root
          BY <1>3, <2>2, <3>2
        <4>2. Good(Up(node))
          BY <1>2, <1>4, <3>2, <4>1
        <4>3. QED BY <1>4, <2>2, <4>2
      <3>3. QED BY <3>1, <3>2
    <2>3. QED BY <2>1, <2>2
  <1> QED BY <1>1, <1>5 DEF Good, Q

(* The inode a finished request writes is in order. *)
LEMMA DoneInode ==
  ASSUME NEW owner \in Owners, NEW place \in Places, NEW d, NEW u, NEW j \in Jobs,
         NEW o \in Owned, j.at = j.len, WalkOK(d, u, j), Homed(owner, place, j.ptr, o, Node),
         owner[o] = o, place[o] = Itself,
         NEW d2, \A s \in Sector : place[s] \in Table => d2[s] = d[s],
         d2[o] = Inode(j.len, RootPart(j.ptr))
  PROVE InodeOK(owner, place, d2, o)
  <1>1. PICK r : r = RootPart(j.ptr)
    OBVIOUS
  <1>2. j.ptr \in [Node -> Sector]
    BY DEF Jobs
  <1>3. r \in Roots /\ \A node \in Root : r[node] = j.ptr[node]
    BY <1>1, <1>2, RootPartIs
  <1>4. d2[o].kind = "inode" /\ d2[o].len = j.len /\ d2[o].root = r
    BY <1>1 DEF Inode
  <1>5. \A node \in Needs(j.len) : PointersIn(d2, r)[node] # 0
    BY <1>3, WalkDone
  <1>6. Homed(owner, place, r, o, Root)
    BY <1>3, RootNode DEF Homed
  <1> QED BY <1>4, <1>5, <1>6 DEF InodeOK, Owned

(* And it reaches all that was visited for the request. *)
LEMMA DoneSectors ==
  ASSUME NEW owner \in Owners, NEW place \in Places, NEW d, NEW u, NEW j \in Jobs,
         NEW o \in Owned, j.at = j.len, WalkOK(d, u, j), Homed(owner, place, j.ptr, o, Node),
         j.sector = o, j \notin {NoJob, Unmapped},
         NEW d2, \A s \in Sector : place[s] \in Table => d2[s] = d[s],
         d2[o] = Inode(j.len, RootPart(j.ptr))
  PROVE /\ Walked(j) = SectorsAt(d2, o)
        /\ Walked(j) = {o} \cup {j.ptr[node] : node \in Needs(j.len)}
  <1>1. PICK r : r = RootPart(j.ptr)
    OBVIOUS
  <1>2. j.ptr \in [Node -> Sector] /\ j.len \in Length
    BY DEF Jobs
  <1>3. \A node \in Root : r[node] = j.ptr[node]
    BY <1>1, <1>2, RootPartIs
  <1>4. d2[o].len = j.len /\ d2[o].root = r
    BY <1>1 DEF Inode
  <1>5. \A node \in Needs(j.len) : PointersIn(d2, r)[node] = j.ptr[node]
    BY <1>3, WalkDone
  <1>6. Visited(j) = Needs(j.len)
    <2>1. j.len \in Nat
      BY <1>2, LengthFacts
    <2>2. \A table : ~Inside(j, table)
      BY <2>1 DEF Inside
    <2>3. QED BY <2>2 DEF Visited
  <1>7. Walked(j) = {o} \cup {j.ptr[node] : node \in Needs(j.len)}
    BY <1>6 DEF Walked
  <1>8. SectorsAt(d2, o) = {o} \cup {PointersIn(d2, r)[node] : node \in Needs(j.len)}
    BY <1>4 DEF SectorsAt
  <1> QED BY <1>5, <1>7, <1>8

LEMMA FinishCreateKeeps ==
  ASSUME IInv, FinishCreate
  PROVE IInv' /\ (failed' \/ NoneForgotten)
  <1>1. PICK owner, place : HomesOK(owner, place)
    BY DEF IInv
  <1>2. TypeOK
    BY DEF IInv
  <1>3. PICK o : o = job.sector
    OBVIOUS
  <1>4. PICK r : r = RootPart(job.ptr)
    OBVIOUS
  <1>5. PICK d2 : d2 = disk'
    OBVIOUS
  <1>6. /\ job.op = "create" /\ job.at = job.len /\ job' = NoJob /\ open' = open
        /\ failed' = (failed \/ dir[job.file] # 0)
        /\ \/ dir[job.file] # 0 /\ used' = used \ {o} /\ dir' = dir
           \/ dir[job.file] = 0 /\ dir' = [dir EXCEPT ![job.file] = o] /\ used' = used
    BY <1>3 DEF FinishCreate, Exists
  <1>7. disk' = [disk EXCEPT ![o] = Inode(job.len, r)]
    BY <1>3, <1>4 DEF FinishCreate
  <1>8. /\ job \in Jobs /\ owner \in Owners /\ place \in Places
        /\ \A s \in Sector : owner[s] # 0 => s \notin System /\ s \in used
        /\ DiskOK(disk) /\ TablesOK(owner, place, disk) /\ LeavesOK(owner, place, disk, dir)
        /\ o \in Owned /\ o \notin System /\ owner[o] = o /\ place[o] = Itself
        /\ Homed(owner, place, job.ptr, o, Node) /\ WalkOK(disk, used, job)
        /\ job.ptr \in [Node -> Sector] /\ job.len \in Length /\ job.file \in Name
    BY <1>1, <1>2, <1>3, <1>6, JobFacts
  <1>9. r \in Roots
    BY <1>4, <1>8, RootPartIs
  <1>10. o \in Sector
    BY <1>8 DEF Owned
  <1>11. /\ d2[o] = Inode(job.len, r)
         /\ \A s \in Sector : s # o => d2[s] = disk[s]
         /\ d2 \in [Sector -> Content]
    <2>1. Inode(job.len, r) \in Content
      BY <1>8, <1>9 DEF Content, Inode, Roots
    <2>2. disk \in [Sector -> Content]
      BY <1>2, TypeFacts
    <2>3. QED BY <1>5, <1>7, <1>10, <2>1, <2>2
  <1>12. CASE dir[job.file] # 0 /\ used' = used \ {o} /\ dir' = dir
    <2>1. failed' = TRUE
      BY <1>6, <1>12
    <2>2. GiveUp
      BY <1>3, <1>5, <1>6, <1>11, <1>12, <2>1 DEF GiveUp
    <2>3. QED BY <2>1, <2>2, GiveUpKeeps
  <1>13. CASE dir[job.file] = 0 /\ dir' = [dir EXCEPT ![job.file] = o] /\ used' = used
    <2>1. PICK f : f = job.file
      OBVIOUS
    <2>2. f \in Name /\ dir[f] = 0
      BY <1>8, <1>13, <2>1
    <2>3. /\ dir'[f] = o /\ \A g \in Name : g # f => dir'[g] = dir[g]
          /\ dir' \in [Name -> Sector]
      BY <1>2, <1>10, <1>13, <2>1, <2>2, TypeFacts
    <2>4. \A g \in Name : dir[g] # o
      BY <1>1, <1>2, <1>3, <1>6, JobFacts DEF HomesOK, JobOK
    <2>5. Frame(owner, place, disk, owner, place, d2, Owned \ {o})
      BY <1>8, <1>11 DEF Frame
    <2>6. TablesOK(owner, place, d2)
      BY <1>8, <1>11, ItselfIsNoNode, TableFacts DEF TablesOK
    <2>7. LeavesOK(owner, place, d2, dir')
      <3>1. \A s \in Sector : place[s] \in Node => d2[s] = disk[s]
        BY <1>8, <1>11, ItselfIsNoNode
      <3>2. \A g \in Name, s \in Sector : owner[s] # 0 /\ dir[g] = owner[s] => dir'[g] = owner[s]
        BY <2>2, <2>3
      <3>3. QED BY <1>8, <3>1, <3>2 DEF LeavesOK
    <2>8. InodeOK(owner, place, d2, o)
      <3>1. \A s \in Sector : place[s] \in Table => d2[s] = disk[s]
        BY <1>8, <1>11, ItselfIsNoNode, TableFacts
      <3>2. PICK j : j = job
        OBVIOUS
      <3>3. /\ j \in Jobs /\ j.at = j.len /\ WalkOK(disk, used, j)
            /\ Homed(owner, place, j.ptr, o, Node) /\ d2[o] = Inode(j.len, RootPart(j.ptr))
        BY <1>4, <1>6, <1>8, <1>11, <3>2
      <3>4. QED BY <1>8, <3>1, <3>3, DoneInode
    <2>9. ASSUME NEW g \in Name, dir[g] # 0
          PROVE /\ InodeOK(owner, place, d2, dir[g])
                /\ open[g] # Closed => MemoryOK(owner, place, d2, dir[g], open[g])
      <3>1. dir[g] \in Owned \ {o}
        BY <1>1, <1>2, <2>4, <2>9, DirOwned DEF Owned
      <3>2. QED BY <1>1, <1>2, <2>5, <2>9, <3>1, FrameFile
    <2>10. FilesOK(owner, place, d2, dir')
      <3>1. ASSUME NEW g \in Name, dir'[g] # 0
            PROVE InodeOK(owner, place, d2, dir'[g])
        BY <2>3, <2>8, <2>9, <3>1
      <3>2. ASSUME NEW g \in Name, NEW h \in Name, dir'[g] # 0, dir'[g] = dir'[h]
            PROVE g = h
        BY <1>1, <2>3, <2>4, <3>2 DEF HomesOK, FilesOK
      <3>3. QED BY <3>1, <3>2 DEF FilesOK
    <2>11. OpenOK(owner, place, d2, dir', open)
      <3> SUFFICES ASSUME NEW g \in Name, open[g] # Closed
                   PROVE dir'[g] # 0 /\ MemoryOK(owner, place, d2, dir'[g], open[g])
        BY DEF OpenOK
      <3>1. dir[g] # 0
        BY <1>1 DEF HomesOK, OpenOK
      <3>2. dir'[g] = dir[g]
        BY <2>2, <2>3, <3>1
      <3>3. QED BY <2>9, <3>1, <3>2
    <2>12. TypeOK'
      <3>1. RootDirSector \in Sector /\ RootDirSector # o
        BY <1>2, <1>8, TypeFacts DEF System, RootDirSector
      <3>2. d2[RootDirSector].kind = "inode"
        BY <1>2, <1>11, <3>1 DEF TypeOK
      <3>3. failed' \in BOOLEAN
        BY <1>6
      <3>4. QED BY <1>2, <1>5, <1>6, <1>11, <1>13, <2>3, <3>2, <3>3 DEF TypeOK
    <2>13. OwnersOK(owner, place, used, FALSE) /\ job' # Unmapped
      BY <1>1, <1>2, <1>6, JobFacts, JobRecord DEF HomesOK
    <2>14. JobOK(owner, place, d2, used, dir', open, job')
      BY <1>6 DEF JobOK
    <2>15. HomesOK(owner, place)'
      BY <1>5, <1>6, <1>13, <2>6, <2>7, <2>10, <2>11, <2>13, <2>14 DEF HomesOK
    <2>16. Held(disk, dir) \subseteq Held(d2, dir')
      <3>1. ASSUME NEW g \in Name, dir[g] # 0
            PROVE dir'[g] = dir[g] /\ SectorsAt(d2, dir[g]) = SectorsAt(disk, dir[g])
        <4>1. dir[g] \in Owned \ {o}
          BY <1>1, <1>2, <2>4, <3>1, DirOwned DEF Owned
        <4>2. SectorsAt(d2, dir[g]) = SectorsAt(disk, dir[g])
          BY <1>1, <1>2, <2>5, <3>1, <4>1, SectorsKept
        <4>3. QED BY <2>2, <2>3, <3>1, <4>2
      <3>2. QED BY <3>1 DEF Held
    <2>17. Walked(job) \subseteq Held(d2, dir')
      <3>1. \A s \in Sector : place[s] \in Table => d2[s] = disk[s]
        BY <1>8, <1>11, ItselfIsNoNode, TableFacts
      <3>2. PICK j : j = job
        OBVIOUS
      <3>3. /\ j \in Jobs /\ j.at = j.len /\ WalkOK(disk, used, j) /\ j.sector = o
            /\ Homed(owner, place, j.ptr, o, Node) /\ d2[o] = Inode(j.len, RootPart(j.ptr))
            /\ j \notin {NoJob, Unmapped}
        BY <1>2, <1>3, <1>4, <1>6, <1>8, <1>11, <3>2, JobRecord
      <3>4. Walked(j) = SectorsAt(d2, o)
        BY <1>8, <3>1, <3>3, DoneSectors
      <3>5. dir'[f] = o /\ o # 0
        BY <1>8, <2>3 DEF Owned
      <3>6. QED BY <2>2, <3>2, <3>4, <3>5 DEF Held
    <2>18. NoneForgotten
      BY <1>5, <1>13, <2>16, <2>17 DEF NoneForgotten
    <2>19. QED BY <2>12, <2>15, <2>18 DEF IInv
  <1> QED BY <1>6, <1>12, <1>13

(* The last block of a finished write is there, in a sector of its own. *)
LEMMA LastBlock ==
  ASSUME TypeOK, NEW owner, NEW place, HomesOK(owner, place), NEW j, j = job, NEW s,
         j.op = "write", j.at = j.len, s = j.ptr[Leaf(j.len - 1)]
  PROVE /\ Leaf(j.len - 1) \in Node \ Table
        /\ s \in Owned /\ owner[s] = j.sector /\ place[s] = Leaf(j.len - 1)
        /\ s # j.sector /\ s \notin System
  <1>1. /\ owner \in Owners /\ place \in Places
        /\ \A t \in Sector : owner[t] # 0 => t \notin System
        /\ j.sector \in Owned /\ place[j.sector] = Itself
        /\ Homed(owner, place, j.ptr, j.sector, Node) /\ WalkOK(disk, used, j)
        /\ j.ptr \in [Node -> Sector] /\ j.len \in Length /\ j.file \in Name
    BY JobFacts
  <1>2. dir[j.file] = j.sector /\ open[j.file] # Closed /\ open[j.file].len < j.len
    BY JobFacts DEF HomesOK, JobOK
  <1>3. open[j.file].len \in Nat /\ j.len \in Nat /\ (j.len - 1 \in Block \/ j.len = 0)
    BY <1>1, <1>2, TypeFacts, LengthFacts
  <1>4. j.len - 1 \in Block /\ j.len - 1 < j.len
    BY <1>2, <1>3
  <1>5. Leaf(j.len - 1) \in Needs(j.len) /\ Leaf(j.len - 1) \in Node \ Table
    BY <1>3, <1>4, LeafNeeded, TableFacts
  <1>6. s \in Sector /\ s # 0
    BY <1>1, <1>5 DEF WalkOK
  <1>7. owner[s] = j.sector /\ place[s] = Leaf(j.len - 1)
    BY <1>1, <1>5, <1>6 DEF Homed
  <1> QED BY <1>1, <1>5, <1>6, <1>7, ItselfIsNoNode DEF Owned

LEMMA FinishWriteKeeps ==
  ASSUME IInv, FinishWrite
  PROVE IInv' /\ NoneForgotten
  <1>1. PICK owner, place : HomesOK(owner, place)
    BY DEF IInv
  <1>2. TypeOK
    BY DEF IInv
  <1>3. PICK o : o = job.sector
    OBVIOUS
  <1>4. PICK r : r = RootPart(job.ptr)
    OBVIOUS
  <1>5. PICK d2 : d2 = disk'
    OBVIOUS
  <1>6. PICK j : j = job
    OBVIOUS
  <1>7. PICK f : f = j.file
    OBVIOUS
  <1>8. PICK s : s = j.ptr[Leaf(j.len - 1)]
    OBVIOUS
  <1>9. PICK m : m = open[f]
    OBVIOUS
  <1>10. /\ j.op = "write" /\ j.at = j.len /\ job' = NoJob
         /\ UNCHANGED <<used, dir, failed>>
    BY <1>6 DEF FinishWrite
  <1>11. /\ d2 = [disk EXCEPT ![o] = Inode(j.len, r), ![s] = Data(f)]
         /\ open' = [open EXCEPT ![f].len = j.len, ![f].root = r]
    BY <1>3, <1>4, <1>5, <1>6, <1>7, <1>8 DEF FinishWrite
  <1>12. /\ j \in Jobs /\ owner \in Owners /\ place \in Places
         /\ \A t \in Sector : owner[t] # 0 => t \notin System /\ t \in used
         /\ DiskOK(disk) /\ TablesOK(owner, place, disk) /\ LeavesOK(owner, place, disk, dir)
         /\ o \in Owned /\ o \notin System /\ owner[o] = o /\ place[o] = Itself
         /\ Homed(owner, place, j.ptr, o, Node) /\ WalkOK(disk, used, j)
         /\ j.ptr \in [Node -> Sector] /\ j.len \in Length /\ f \in Name
    BY <1>1, <1>2, <1>3, <1>6, <1>7, <1>10, JobFacts
  <1>13. dir[f] = o /\ m # Closed
    BY <1>1, <1>2, <1>3, <1>6, <1>7, <1>9, <1>10, JobFacts DEF HomesOK, JobOK
  <1>14. /\ s \in Owned /\ owner[s] = o /\ place[s] \in Node \ Table
         /\ s # o /\ s \notin System
    BY <1>1, <1>2, <1>3, <1>6, <1>8, <1>10, LastBlock
  <1>15. r \in Roots /\ \A node \in Root : r[node] = j.ptr[node]
    BY <1>4, <1>6, <1>12, RootPartIs
  <1>16. m \in [kind : {"open"}, len : Length, root : [Root -> Sector]]
    BY <1>2, <1>9, <1>12, <1>13 DEF TypeOK
  <1>17. PICK m2 : m2 = [m EXCEPT !.len = j.len, !.root = r]
    OBVIOUS
  <1>18. /\ m2 \in [kind : {"open"}, len : Length, root : [Root -> Sector]]
         /\ m2.len = j.len /\ m2.root = r
    BY <1>12, <1>15, <1>16, <1>17 DEF Roots
  <1>19. open'[f] = m2 /\ \A g \in Name : g # f => open'[g] = open[g]
    BY <1>2, <1>9, <1>11, <1>12, <1>17, TypeFacts
  <1>20. DOMAIN open' = Name
    BY <1>2, <1>11, TypeFacts
  <1>21. /\ d2[o] = Inode(j.len, r) /\ d2[s] = Data(f)
         /\ \A t \in Sector : t # o /\ t # s => d2[t] = disk[t]
         /\ d2 \in [Sector -> Content]
    <2>1. Inode(j.len, r) \in Content /\ Data(f) \in Content
      BY <1>12, <1>15 DEF Content, Inode, Roots
    <2>2. disk \in [Sector -> Content]
      BY <1>2, TypeFacts
    <2>3. o \in Sector /\ s \in Sector /\ s # o
      BY <1>12, <1>14 DEF Owned
    <2>4. QED BY <1>11, <2>1, <2>2, <2>3
  <1>22. TypeOK'
    <2>1. RootDirSector \in Sector /\ RootDirSector # o /\ RootDirSector # s
      BY <1>2, <1>12, <1>14, TypeFacts DEF System, RootDirSector
    <2>2. d2[RootDirSector].kind = "inode"
      BY <1>2, <1>21, <2>1 DEF TypeOK
    <2>3. QED BY <1>2, <1>5, <1>10, <1>18, <1>19, <1>20, <1>21, <2>2 DEF TypeOK
  <1>23. \A t \in Sector : place[t] \in Table => d2[t] = disk[t]
    BY <1>12, <1>14, <1>21, ItselfIsNoNode, TableFacts
  <1>24. InodeOK(owner, place, d2, o)
    <2>1. d2[o] = Inode(j.len, RootPart(j.ptr))
      BY <1>4, <1>6, <1>21
    <2>2. QED BY <1>10, <1>12, <1>23, <2>1, DoneInode
  <1>25. Frame(owner, place, disk, owner, place, d2, Owned \ {o})
    BY <1>12, <1>14, <1>21 DEF Frame
  <1>26. TablesOK(owner, place, d2)
    BY <1>12, <1>23 DEF TablesOK
  <1>27. LeavesOK(owner, place, d2, dir)
    <2>1. \A t \in Sector : place[t] \in Node /\ t # s => d2[t] = disk[t]
      BY <1>12, <1>21, ItselfIsNoNode
    <2>2. dir[f] = owner[s] /\ d2[s] = Data(f)
      BY <1>13, <1>14, <1>21
    <2>3. QED BY <1>12, <2>1, <2>2 DEF LeavesOK
  <1>28. ASSUME NEW g \in Name, dir[g] # 0
         PROVE /\ InodeOK(owner, place, d2, dir[g])
               /\ g # f => dir[g] # o
               /\ g # f /\ open[g] # Closed => MemoryOK(owner, place, d2, dir[g], open[g])
    <2>1. CASE g = f
      BY <1>13, <1>24, <2>1
    <2>2. CASE g # f
      <3>1. dir[g] # o
        BY <1>1, <1>12, <1>13, <1>28, <2>2 DEF HomesOK, FilesOK
      <3>2. dir[g] \in Owned \ {o}
        BY <1>1, <1>2, <1>28, <3>1, DirOwned DEF Owned
      <3>3. QED BY <1>1, <1>2, <1>25, <1>28, <3>1, <3>2, FrameFile
    <2>3. QED BY <2>1, <2>2
  <1>29. FilesOK(owner, place, d2, dir)
    BY <1>1, <1>28 DEF FilesOK, HomesOK
  <1>30. MemoryOK(owner, place, d2, o, m2)
    <2>1. d2[o].len = j.len /\ d2[o].root = r
      BY <1>21 DEF Inode
    <2>2. Homed(owner, place, r, o, Root)
      BY <1>12, <1>15, RootNode DEF Homed
    <2>3. QED BY <1>18, <2>1, <2>2 DEF MemoryOK
  <1>31. OpenOK(owner, place, d2, dir, open')
    <2> SUFFICES ASSUME NEW g \in Name, open'[g] # Closed
                 PROVE dir[g] # 0 /\ MemoryOK(owner, place, d2, dir[g], open'[g])
      BY DEF OpenOK
    <2>1. CASE g = f
      BY <1>12, <1>13, <1>19, <1>30, <2>1 DEF Owned
    <2>2. CASE g # f
      <3>1. open'[g] = open[g] /\ dir[g] # 0
        BY <1>1, <1>19, <2>2 DEF HomesOK, OpenOK
      <3>2. QED BY <1>28, <2>2, <3>1
    <2>3. QED BY <2>1, <2>2
  <1>32. JobOK(owner, place, d2, used, dir, open', job')
    BY <1>10 DEF JobOK
  <1>33. OwnersOK(owner, place, used, FALSE) /\ job' # Unmapped
    BY <1>1, <1>2, <1>6, <1>10, JobFacts, JobRecord DEF HomesOK
  <1>34. HomesOK(owner, place)'
    BY <1>5, <1>10, <1>26, <1>27, <1>29, <1>31, <1>32, <1>33 DEF HomesOK
  <1>35. Walked(j) = SectorsAt(d2, o) /\ Walked(j) = {o} \cup {j.ptr[node] : node \in Needs(j.len)}
    <2>1. j.sector = o /\ j \notin {NoJob, Unmapped} /\ d2[o] = Inode(j.len, RootPart(j.ptr))
      BY <1>2, <1>3, <1>4, <1>6, <1>10, <1>21, JobRecord
    <2>2. QED BY <1>10, <1>12, <1>23, <2>1, DoneSectors
  <1>36. SectorsAt(disk, o) \subseteq Walked(j)
    <2>1. PICK n, q : n = disk[o].len /\ q = disk[o].root
      OBVIOUS
    <2>2. InodeOK(owner, place, disk, o) /\ MemoryOK(owner, place, disk, o, m)
      BY <1>1, <1>9, <1>12, <1>13, DirOwned DEF HomesOK, FilesOK, OpenOK, Owned
    <2>3. m.len = n /\ \A node \in Root : node \in Needs(n) => m.root[node] = q[node]
      BY <2>1, <2>2 DEF MemoryOK
    <2>4. \A node \in Root : m.root[node] # 0 => j.ptr[node] = m.root[node]
      BY <1>1, <1>2, <1>6, <1>7, <1>9, <1>10, JobFacts DEF HomesOK, JobOK
    <2>5. m.len < j.len /\ n \in Length
      BY <1>1, <1>2, <1>6, <1>7, <1>9, <1>10, <1>16, <2>3, JobFacts DEF HomesOK, JobOK
    <2>6. ASSUME NEW node \in Root, node \in Needs(n)
          PROVE r[node] = q[node]
      <3>1. PointersIn(disk, q)[node] # 0
        BY <2>1, <2>2, <2>6 DEF InodeOK
      <3>2. q[node] # 0
        BY <3>1, PointersStep
      <3>3. QED BY <1>15, <2>3, <2>4, <2>6, <3>2
    <2>7. \A node \in Needs(n) : PointersIn(disk, r)[node] = PointersIn(disk, q)[node]
      BY <2>5, <2>6, SamePointers
    <2>8. \A node \in Needs(j.len) : PointersIn(disk, r)[node] = j.ptr[node]
      <3>1. PICK d : d = disk
        OBVIOUS
      <3>2. WalkOK(d, used, j) /\ \A t \in Sector : place[t] \in Table => d[t] = d[t]
        BY <1>12, <3>1
      <3>3. \A node \in Needs(j.len) : PointersIn(d, r)[node] = j.ptr[node]
        BY <1>10, <1>12, <1>15, <3>2, WalkDone
      <3>4. QED BY <3>1, <3>3
    <2>9. Needs(n) \subseteq Needs(j.len)
      <3>1. n \in Nat /\ j.len \in Nat /\ n <= j.len
        BY <1>12, <2>3, <2>5, LengthFacts
      <3>2. QED BY <3>1, NeedsMore
    <2>10. SectorsAt(disk, o) = {o} \cup {PointersIn(disk, q)[node] : node \in Needs(n)}
      BY <2>1 DEF SectorsAt
    <2>11. QED BY <1>35, <2>7, <2>8, <2>9, <2>10
  <1>37. Held(disk, dir) \subseteq Held(d2, dir)
    <2>1. ASSUME NEW g \in Name, dir[g] # 0
          PROVE SectorsAt(disk, dir[g]) \subseteq SectorsAt(d2, dir[g])
      <3>1. CASE g = f
        BY <1>13, <1>35, <1>36, <3>1
      <3>2. CASE g # f
        <4>1. dir[g] \in Owned \ {o}
          BY <1>1, <1>2, <1>28, <2>1, <3>2, DirOwned DEF Owned
        <4>2. QED BY <1>1, <1>2, <1>25, <2>1, <4>1, SectorsKept
      <3>3. QED BY <3>1, <3>2
    <2>2. QED BY <2>1 DEF Held
  <1>38. NoneForgotten
    <2>1. Walked(job) \subseteq Held(d2, dir)
      BY <1>6, <1>12, <1>13, <1>35 DEF Held, Owned
    <2>2. QED BY <1>5, <1>10, <1>37, <2>1 DEF NoneForgotten
  <1> QED BY <1>22, <1>34, <1>38 DEF IInv

-----------------------------------------------------------------------------
(* The steps of inode_reserve.                                             *)

(* The next free sector goes to the request under way, as node p, cleared. *)
Taken(owner, place, owner2, place2, s, p, d2, u2) ==
  /\ Given(owner, place, owner2, place2, s, job.sector, p)
  /\ owner[s] = 0 /\ s \in Owned /\ s \notin System
  /\ d2 \in [Sector -> Content] /\ d2[s] = Zeros /\ \A t \in Sector : t # s => d2[t] = disk[t]
  /\ Kept(owner, disk, d2) /\ Frame(owner, place, disk, owner2, place2, d2, Owned)
  /\ OwnersOK(owner2, place2, u2, FALSE)
  /\ TablesOK(owner2, place2, d2) /\ LeavesOK(owner2, place2, d2, dir)

LEMMA TakeKeeps ==
  ASSUME TypeOK, NEW owner, NEW place, HomesOK(owner, place), job.op \in {"create", "write"},
         ~Full(used), NEW s, s = Lowest(used), NEW p \in Node,
         NEW d2, d2 = [disk EXCEPT ![s] = Zeros], NEW u2, u2 = used \cup {s}
  PROVE \E owner2, place2 : Taken(owner, place, owner2, place2, s, p, d2, u2)
  <1>1. /\ owner \in Owners /\ place \in Places
        /\ \A t \in Sector : owner[t] # 0 => t \notin System /\ t \in used
        /\ \A t \in Sector \ used : owner[t] = 0
        /\ DiskOK(disk) /\ TablesOK(owner, place, disk) /\ LeavesOK(owner, place, disk, dir)
    BY JobFacts
  <1>2. PICK o : o = job.sector
    OBVIOUS
  <1>3. o \in Owned /\ o \in Sector
    BY <1>2, JobFacts DEF Owned
  <1>4. s \in Sector \ used
    BY TypeFacts, LowestIsFree
  <1>5. s \notin System /\ s \in Owned /\ owner[s] = 0
    BY <1>1, <1>4, TypeFacts DEF System, FreeMapSector, Owned
  <1>6. PICK owner2, place2 : Given(owner, place, owner2, place2, s, o, p)
    BY <1>1, <1>3, <1>4, Give
  <1>7. d2 \in [Sector -> Content] /\ d2[s] = Zeros /\ \A t \in Sector : t # s => d2[t] = disk[t]
    <2>1. disk \in [Sector -> Content] /\ Zeros \in Content
      BY TypeFacts DEF Content
    <2>2. QED BY <1>4, <2>1
  <1>8. Kept(owner, disk, d2)
    BY <1>5, <1>7 DEF Kept
  <1>9. Frame(owner, place, disk, owner2, place2, d2, Owned)
    BY <1>4, <1>5, <1>6, <1>8, GiveFrame
  <1>10. OwnersOK(owner2, place2, u2, FALSE)
    BY <1>1, <1>5, <1>6 DEF OwnersOK, Owners, Places, Given
  <1>11. TablesOK(owner2, place2, d2)
    BY <1>1, <1>4, <1>5, <1>6, <1>7, <1>8, GiveTables
  <1>12. LeavesOK(owner2, place2, d2, dir)
    BY <1>1, <1>6, <1>7 DEF LeavesOK, Given
  <1> QED BY <1>2, <1>5, <1>6, <1>7, <1>8, <1>9, <1>10, <1>11, <1>12 DEF Taken

(* What a step of inode_reserve leaves as it is: the inodes of all files,  *)
(* on the disk and in memory.                                              *)
LEMMA FilesKept ==
  ASSUME TypeOK, NEW owner, NEW place, HomesOK(owner, place),
         NEW owner2, NEW place2, NEW d2, Frame(owner, place, disk, owner2, place2, d2, Owned)
  PROVE FilesOK(owner2, place2, d2, dir) /\ OpenOK(owner2, place2, d2, dir, open)
  <1>1. ASSUME NEW g \in Name, dir[g] # 0
        PROVE /\ InodeOK(owner2, place2, d2, dir[g])
              /\ open[g] # Closed => MemoryOK(owner2, place2, d2, dir[g], open[g])
    <2>1. dir[g] \in Owned
      BY <1>1, DirOwned DEF Owned
    <2>2. QED BY <1>1, <2>1, FrameFile
  <1> QED BY <1>1 DEF FilesOK, OpenOK, HomesOK

LEMMA DirectoryOwned ==
  ASSUME TypeOK, NEW owner, NEW place, HomesOK(owner, place)
  PROVE \A f \in Name : dir[f] # 0 => dir[f] \in Owned
  BY DirOwned DEF Owned

LEMMA EnteredIs ==
  ASSUME NEW ptr \in [Node -> Sector], NEW table \in Table, NEW s \in Sector,
         NEW content \in Content, NEW q, q = Entered(ptr, table, s, content)
  PROVE /\ q \in [Node -> Sector] /\ q[table] = s
        /\ \A c \in Children(table) : q[c] = EntryAt(content, Slot(c))
        /\ \A node \in Node : node # table /\ node \notin Children(table) => q[node] = ptr[node]
  <1>1. /\ table \in Node
        /\ \A c \in Children(table) : c \in Node /\ Slot(c) \in Index /\ c # table
    BY TableFacts, NodeFacts
  <1>2. \A c \in Children(table) : EntryAt(content, Slot(c)) \in Sector
    BY <1>1, EntryType
  <1> QED BY <1>1, <1>2 DEF Entered

(* A step of inode_reserve that forgets nothing, and takes one sector at   *)
(* most, the one it visits.                                                *)
LEMMA WalkForgetsNone ==
  ASSUME NEW j, NEW j2, NEW d2, NEW u2, NEW s, NEW node,
         j = job, j2 = job', d2 = disk', u2 = used', dir' = dir,
         j \notin {NoJob, Unmapped}, j2 \notin {NoJob, Unmapped}, j2.sector = j.sector,
         Held(disk, dir) \subseteq Held(d2, dir), Remembers(j, j2),
         u2 \subseteq used \cup {s}, node \in Visited(j2), s = j2.ptr[node]
  PROVE NoneForgotten
  <1>1. Walked(j) \subseteq System \cup Walked(j2)
    <2>1. \A n \in Visited(j) : j.ptr[n] \in System \cup {j2.ptr[m] : m \in Visited(j2)}
      BY DEF Remembers, System, FreeMapSector
    <2>2. QED BY <2>1 DEF Walked
  <1>2. s \in Walked(j2)
    BY DEF Walked
  <1>3. Held(disk, dir) \cup Walked(job) \subseteq System \cup Held(disk', dir') \cup Walked(job')
    BY <1>1
  <1>4. used' \subseteq used \cup Walked(job')
    BY <1>2
  <1> QED BY <1>3, <1>4 DEF NoneForgotten

(* A table of the request: it is there, new, or the disk is full.          *)
Entry(d, u, j, table, s, content, d2, u2) ==
  /\ s \in Sector /\ content \in Content
  /\ \/ j.ptr[table] # 0 /\ s = j.ptr[table] /\ content = d[s] /\ d2 = d /\ u2 = u
     \/ j.ptr[table] = 0 /\ s = 0 /\ content = Zeros /\ Full(u) /\ u2 = u
     \/ j.ptr[table] = 0 /\ s # 0 /\ content = Zeros /\ d2[s] = Zeros /\ ~Full(u)

(* The next table of the way. *)
NextTable(j, j2, table) ==
  /\ j \in Jobs /\ j2 \in Jobs /\ j.at < j.len /\ j.depth < Len(Way(j.at))
  /\ table = Way(j.at)[j.depth]
  /\ j2.at = j.at /\ j2.len = j.len /\ j2.depth = j.depth + 1

LEMMA NextTableFacts ==
  ASSUME NEW j, NEW j2, NEW table, NextTable(j, j2, table)
  PROVE /\ j.at \in Block /\ GoodWay(j.at) /\ table \in Table /\ j.depth \in 1 .. 2
        /\ ~Inside(j, table) /\ Inside(j2, table)
        /\ \A t : Inside(j2, t) <=> Inside(j, t) \/ t = table
        /\ table \notin Root => Inside(j, Up(table))
        /\ \A t : Inside(j, t) => t \notin Children(table) /\ t # table
        /\ Way(j.at)[j.depth + 1] \in Children(table)
  <1>1. j.len \in Length /\ j.at \in Nat /\ j.depth \in 1 .. 3 /\ j.at < j.len
    BY DEF NextTable, Jobs
  <1>2. j.at \in Block
    BY <1>1, LengthFacts
  <1>3. GoodWay(j.at)
    BY <1>2, WayFacts
  <1>4. j.depth \in 1 .. Len(Way(j.at)) - 1 /\ Len(Way(j.at)) \in 1 .. 3
    BY <1>1, <1>3 DEF NextTable, GoodWay
  <1>5. j.depth \in 1 .. 2 /\ table \in Table
    BY <1>3, <1>4 DEF NextTable, GoodWay
  <1>6. \A t : Inside(j2, t) <=> Inside(j, t) \/ t = table
    <2>1. \A k : k \in 1 .. j2.depth - 1 <=> k \in 1 .. j.depth - 1 \/ k = j.depth
      BY <1>5 DEF NextTable
    <2>2. QED BY <1>1, <2>1 DEF Inside, NextTable
  <1>7. ASSUME NEW t, Inside(j, t)
        PROVE t \notin Children(table) /\ t # table
    <2>1. PICK k \in 1 .. j.depth - 1 : Way(j.at)[k] = t
      BY <1>7 DEF Inside
    <2>2. k \in 1 .. Len(Way(j.at)) /\ k < j.depth /\ j.depth \in 1 .. Len(Way(j.at))
      BY <1>4, <2>1
    <2>3. t # table
      BY <1>3, <2>1, <2>2 DEF GoodWay, NextTable
    <2>4. ASSUME t \in Children(table)
          PROVE FALSE
      <3>1. t \notin Root /\ Up(t) = table
        BY <1>5, <2>4, TableFacts
      <3>2. k \in 2 .. Len(Way(j.at))
        BY <1>3, <2>1, <2>2, <3>1 DEF GoodWay
      <3>3. Way(j.at)[k - 1] = table /\ k - 1 \in 1 .. Len(Way(j.at))
        BY <1>3, <2>1, <3>1, <3>2 DEF GoodWay
      <3>4. QED BY <1>3, <2>2, <3>3 DEF GoodWay, NextTable
    <2>5. QED BY <2>3, <2>4
  <1>8. ASSUME table \notin Root
        PROVE Inside(j, Up(table))
    <2>1. j.depth \in 2 .. Len(Way(j.at))
      BY <1>3, <1>4, <1>8 DEF GoodWay, NextTable
    <2>2. Up(table) = Way(j.at)[j.depth - 1] /\ j.depth - 1 \in 1 .. j.depth - 1
      BY <1>3, <2>1 DEF GoodWay, NextTable
    <2>3. QED BY <1>1, <2>2 DEF Inside
  <1>9. Way(j.at)[j.depth + 1] \in Children(table)
    <2>1. j.depth + 1 \in 2 .. Len(Way(j.at)) /\ (j.depth + 1) - 1 = j.depth
      BY <1>4
    <2>2. /\ Way(j.at)[j.depth + 1] \in Node /\ Way(j.at)[j.depth + 1] \notin Root
          /\ Up(Way(j.at)[j.depth + 1]) = table
      BY <1>3, <2>1 DEF GoodWay, NextTable
    <2>3. QED BY <2>2, NodeFacts
  <1> QED BY <1>2, <1>3, <1>5, <1>6, <1>7, <1>8, <1>9

(* What was visited stays visited when the next table is entered. *)
LEMMA WalkEnters ==
  ASSUME NEW owner, NEW d, DiskOK(d), NEW u, NEW j, NEW j2, NEW table, NEW s, NEW content,
         NEW d2, NEW u2, NEW o \in Owned,
         NextTable(j, j2, table), Entry(d, u, j, table, s, content, d2, u2),
         Kept(owner, d, d2), WalkOK(d, u, j),
         \A node \in Node : j.ptr[node] # 0 => owner[j.ptr[node]] = o,
         j2.ptr = Entered(j.ptr, table, s, content)
  PROVE WalkOK(d2, u2, j2) /\ Remembers(j, j2)
  <1> DEFINE p == j.ptr
             q == j2.ptr
             n == j.at
  <1>1. /\ n \in Block /\ n \in Nat /\ GoodWay(n) /\ table \in Table /\ j.depth \in 1 .. 2
        /\ p \in [Node -> Sector] /\ j.at < j.len /\ j.len \in Nat
        /\ j2.at = j.at /\ j2.len = j.len /\ j2.depth = j.depth + 1
        /\ j.depth < Len(Way(n)) /\ table = Way(n)[j.depth]
    BY NextTableFacts, LengthFacts DEF NextTable, Jobs
  <1>2. /\ q \in [Node -> Sector] /\ q[table] = s
        /\ \A c \in Children(table) : q[c] = EntryAt(content, Slot(c))
        /\ \A node \in Node : node # table /\ node \notin Children(table) => q[node] = p[node]
    <2>1. s \in Sector /\ content \in Content
      BY Zenon DEF Entry
    <2>2. PICK ptr : ptr = p
      OBVIOUS
    <2>3. ptr \in [Node -> Sector] /\ table \in Table /\ q = Entered(ptr, table, s, content)
      BY <1>1, <2>2, Zenon
    <2>. HIDE DEF q
    <2>4. /\ q \in [Node -> Sector] /\ q[table] = s
          /\ \A c \in Children(table) : q[c] = EntryAt(content, Slot(c))
          /\ \A node \in Node : node # table /\ node \notin Children(table) => q[node] = ptr[node]
      BY <2>1, <2>3, EnteredIs
    <2>5. QED BY <2>2, <2>4, Zenon
  <1>3. /\ \A node \in Needs(n) : p[node] # 0
        /\ \A k \in 1 .. j.depth - 1 : p[Way(n)[k]] # 0 \/ (Full(u) /\ p[table] = 0)
        /\ \A t \in Table : t \in Needs(n) /\ ~Inside(j, t) => Agree(d, j, t)
        /\ \A t \in Table : Inside(j, t) /\ p[t] # 0 =>
             \A c \in Children(t) :
               EntryAt(d[p[t]], Slot(c)) # 0 => EntryAt(d[p[t]], Slot(c)) = p[c]
    BY <1>1 DEF WalkOK
  <1>4. \A node \in Node : p[node] # 0 => d2[p[node]] = d[p[node]]
    BY <1>1 DEF Kept, Owned
  <1>5. p[table] # 0 => s = p[table] /\ content = d[s] /\ d2 = d /\ u2 = u
    BY DEF Entry
  <1> HIDE DEF p, q, n
  <1>6. ASSUME NEW node \in Needs(n)
        PROVE q[node] = p[node] /\ node \in Node
    <2>1. node \in Node
      BY DEF Needs
    <2>2. CASE node = table
      BY <1>2, <1>3, <1>5, <2>1, <2>2
    <2>3. CASE node \in Children(table)
      <3>1. node \notin Root /\ Up(node) = table
        BY <1>1, <2>3, TableFacts
      <3>2. n - 1 \in Block \/ n = 0
        BY <1>1, InodeAssumption DEF Block
      <3>3. table \in Needs(n)
        BY <1>1, <3>1, <3>2, NeedsUp
      <3>4. Agree(d, j, table) /\ p[table] # 0
        BY <1>1, <1>3, <3>3, NextTableFacts
      <3>5. EntryAt(d[p[table]], Slot(node)) = p[node]
        BY <2>3, <3>4 DEF Agree, p
      <3>6. QED BY <1>2, <1>5, <2>1, <2>3, <3>4, <3>5
    <2>4. QED BY <1>2, <2>1, <2>2, <2>3
  <1>7. \A t : Inside(j, t) => t \notin Children(table) /\ t # table
    BY NextTableFacts
  <1>8. ASSUME NEW k \in 1 .. j2.depth - 1
        PROVE q[Way(n)[k]] # 0 \/ (Full(u2) /\ q[Way(n)[j2.depth]] = 0)
    <2>1. Way(n)[j2.depth] \in Children(table)
      BY <1>1, NextTableFacts DEF n
    <2>2. CASE p[table] = 0 /\ s = 0 /\ Full(u2) /\ content = Zeros
      <3>1. EntryAt(content, Slot(Way(n)[j2.depth])) = 0
        BY <2>2 DEF EntryAt, Zeros
      <3>2. QED BY <1>2, <2>1, <2>2, <3>1
    <2>3. CASE s # 0 /\ (p[table] # 0 \/ ~Full(u))
      <3>1. CASE k = j.depth
        BY <1>1, <1>2, <2>3, <3>1
      <3>2. CASE k # j.depth
        <4>1. k \in 1 .. j.depth - 1 /\ k \in 1 .. Len(Way(n))
          BY <1>1, <3>2
        <4>2. p[Way(n)[k]] # 0
          BY <1>3, <2>3, <4>1
        <4>3. Inside(j, Way(n)[k])
          BY <1>1, <4>1 DEF Inside, n
        <4>4. Way(n)[k] \in Node
          BY <1>1, <4>1 DEF GoodWay
        <4>5. QED BY <1>2, <1>7, <4>2, <4>3, <4>4
      <3>3. QED BY <3>1, <3>2
    <2>4. QED BY <2>2, <2>3 DEF Entry, p
  <1>9. ASSUME NEW t \in Table, t \in Needs(n), ~Inside(j2, t)
        PROVE Agree(d2, j2, t)
    <2>1. ~Inside(j, t) /\ t # table
      BY <1>9, NextTableFacts
    <2>2. Agree(d, j, t) /\ p[t] # 0 /\ q[t] = p[t] /\ t \in Node
      BY <1>3, <1>6, <1>9, <2>1
    <2>3. d2[q[t]] = d[p[t]]
      BY <1>4, <2>2
    <2>4. ASSUME NEW c \in Children(t)
          PROVE q[c] = p[c]
      <3>1. c \in Node /\ c \notin Root /\ Up(c) = t
        BY TableFacts
      <3>2. c \notin Children(table)
        BY <1>1, <2>1, <3>1, TableFacts
      <3>3. c # table
        BY <2>1, <3>1, NextTableFacts
      <3>4. QED BY <1>2, <3>1, <3>2, <3>3
    <2>5. QED BY <2>2, <2>3, <2>4 DEF Agree, p, q
  <1>10. ASSUME NEW t \in Table, Inside(j2, t), q[t] # 0, NEW c \in Children(t),
                EntryAt(d2[q[t]], Slot(c)) # 0
         PROVE EntryAt(d2[q[t]], Slot(c)) = q[c]
    <2>1. CASE t = table
      <3>1. content = d2[s] /\ s # 0
        BY <1>2, <1>10, <2>1 DEF Entry
      <3>2. QED BY <1>2, <1>10, <2>1, <3>1
    <2>2. CASE t # table
      <3>1. Inside(j, t)
        BY <1>10, <2>2, NextTableFacts
      <3>2. t \in Node /\ q[t] = p[t]
        BY <1>2, <1>7, <3>1, TableFacts
      <3>3. EntryAt(d2[q[t]], Slot(c)) = p[c] /\ p[c] # 0
        BY <1>3, <1>4, <1>10, <3>1, <3>2
      <3>4. c \in Node /\ Up(c) = t
        BY TableFacts
      <3>5. c \notin Children(table)
        BY <1>1, <2>2, <3>4, TableFacts
      <3>6. q[c] = p[c]
        BY <1>2, <1>5, <3>3, <3>4, <3>5
      <3>7. QED BY <3>3, <3>6
    <2>3. QED BY <2>1, <2>2
  <1>11. j2.at <= j2.len /\ (j2.at < j2.len => j2.depth <= Len(Way(j2.at)))
    <2>1. Len(Way(n)) \in 1 .. 3
      BY <1>1 DEF GoodWay
    <2>2. QED BY <1>1, <2>1 DEF n
  <1>12. \A node \in Needs(j2.at) : j2.ptr[node] # 0
    BY <1>1, <1>3, <1>6 DEF q, n
  <1>13. \A k \in 1 .. j2.depth - 1 :
           j2.ptr[Way(j2.at)[k]] # 0 \/ (Full(u2) /\ j2.ptr[Way(j2.at)[j2.depth]] = 0)
    BY <1>1, <1>8 DEF q, n
  <1>14. \A t \in Table : t \in Needs(j2.at) /\ ~Inside(j2, t) => Agree(d2, j2, t)
    BY <1>1, <1>9 DEF n
  <1>15. \A t \in Table : Inside(j2, t) /\ j2.ptr[t] # 0 =>
           \A c \in Children(t) :
             LET x == EntryAt(d2[j2.ptr[t]], Slot(c)) IN x # 0 => x = j2.ptr[c]
    BY <1>10 DEF q
  <1>16. WalkOK(d2, u2, j2)
    BY <1>11, <1>12, <1>13, <1>14, <1>15 DEF WalkOK
  <1>17. Remembers(j, j2)
    <2>1. ASSUME NEW t \in Table, Inside(j, t)
          PROVE Inside(j2, t) /\ q[t] = p[t]
      BY <1>2, <1>7, <2>1, NextTableFacts, TableFacts
    <2>2. Needs(j2.at) = Needs(n) /\ Needs(j.at) = Needs(n)
      BY <1>1 DEF n
    <2>3. QED BY <1>6, <2>1, <2>2 DEF Remembers, Visited, p, q
  <1> QED BY <1>16, <1>17

(* What visiting a table does besides moving on: sectors are taken, or the *)
(* free map's own sector is cleared; no block of an inode is lost.         *)
Visit(owner, place, owner2, place2, table, s, content, d2, u2) ==
  /\ owner2 \in Owners /\ place2 \in Places
  /\ Kept(owner, disk, d2) /\ Frame(owner, place, disk, owner2, place2, d2, Owned)
  /\ OwnersOK(owner2, place2, u2, FALSE)
  /\ TablesOK(owner2, place2, d2) /\ LeavesOK(owner2, place2, d2, dir)
  /\ d2 \in [Sector -> Content] /\ d2[RootDirSector] = disk[RootDirSector]
  /\ u2 \in SUBSET Sector /\ used \subseteq u2 /\ u2 \subseteq used \cup {s}
  /\ Entry(disk, used, job, table, s, content, d2, u2)
  /\ s # 0 => owner2[s] = job.sector /\ place2[s] = table

LEMMA VisitIs ==
  ASSUME TypeOK, NEW owner, NEW place, HomesOK(owner, place), VisitTable,
         NEW table, table = Current
  PROVE \E owner2, place2, s, content :
          /\ Visit(owner, place, owner2, place2, table, s, content, disk', used')
          /\ job' = [job EXCEPT !.depth = @ + 1, !.ptr = Entered(@, table, s, content)]
          /\ UNCHANGED <<dir, open, failed>>
  <1>1. /\ job.op \in {"create", "write"} /\ job.at < job.len /\ job.depth # Len(Way(job.at))
        /\ table = Way(job.at)[job.depth] /\ UNCHANGED <<dir, open, failed>>
    BY DEF VisitTable, Walking, IsLeaf, Current
  <1>2. /\ owner \in Owners /\ place \in Places
        /\ \A t \in Sector : owner[t] # 0 => t \notin System /\ t \in used
        /\ DiskOK(disk) /\ TablesOK(owner, place, disk) /\ LeavesOK(owner, place, disk, dir)
        /\ Homed(owner, place, job.ptr, job.sector, Node) /\ WalkOK(disk, used, job)
        /\ job.ptr \in [Node -> Sector] /\ job.len \in Length
        /\ job.at \in Nat /\ job.depth \in 1 .. 3 /\ job # Unmapped
        /\ OwnersOK(owner, place, used, FALSE)
    BY <1>1, JobFacts, JobRecord DEF HomesOK
  <1>3. /\ disk \in [Sector -> Content] /\ used \in SUBSET Sector
        /\ 0 \in Sector /\ 1 \in Sector /\ Zeros \in Content
    BY TypeFacts DEF Content
  <1>4. job.at \in Block /\ job.depth <= Len(Way(job.at))
    BY <1>1, <1>2, LengthFacts DEF WalkOK
  <1>5. GoodWay(job.at)
    BY <1>4, WayFacts
  <1>6. job.depth \in 1 .. Len(Way(job.at)) - 1
    BY <1>1, <1>2, <1>4, <1>5 DEF GoodWay
  <1>7. table \in Table /\ table \in Node
    BY <1>1, <1>5, <1>6, TableFacts DEF GoodWay
  <1>8. CASE /\ job.ptr[table] # 0 /\ UNCHANGED <<used, disk>>
             /\ job' = [job EXCEPT !.depth = @ + 1,
                         !.ptr = Entered(@, table, @[table], disk[@[table]])]
    <2>1. PICK s : s = job.ptr[table]
      OBVIOUS
    <2>2. PICK content : content = disk[s]
      OBVIOUS
    <2>3. s \in Sector /\ s # 0 /\ content \in Content /\ owner[s] = job.sector /\ place[s] = table
      BY <1>2, <1>3, <1>7, <1>8, <2>1, <2>2 DEF Homed
    <2>4. job' = [job EXCEPT !.depth = @ + 1, !.ptr = Entered(@, table, s, content)]
      BY <1>8, <2>1, <2>2
    <2>5. Frame(owner, place, disk, owner, place, disk, Owned) /\ Kept(owner, disk, disk)
      BY DEF Frame, Kept
    <2>6. Entry(disk, used, job, table, s, content, disk, used)
      BY <1>8, <2>1, <2>2, <2>3 DEF Entry
    <2>7. Visit(owner, place, owner, place, table, s, content, disk, used)
      BY <1>2, <1>3, <2>3, <2>5, <2>6 DEF Visit
    <2>8. QED BY <1>1, <1>8, <2>4, <2>7
  <1>9. ASSUME NEW s \in Sector, job.ptr[table] = 0, ~Full(used), s = Lowest(used),
               used' = Allocated(used, s), disk' = Cleared(disk, s),
               job' = [job EXCEPT !.depth = @ + 1, !.ptr = Entered(@, table, s, Zeros)]
        PROVE \E owner2, place2, s2, content :
                /\ Visit(owner, place, owner2, place2, table, s2, content, disk', used')
                /\ job' = [job EXCEPT !.depth = @ + 1, !.ptr = Entered(@, table, s2, content)]
                /\ UNCHANGED <<dir, open, failed>>
    <2>1. PICK d2 : d2 = disk'
      OBVIOUS
    <2>2. PICK u2 : u2 = used'
      OBVIOUS
    <2>3. d2 = [disk EXCEPT ![s] = Zeros] /\ u2 = used \cup {s}
      BY <1>9, <2>1, <2>2 DEF Cleared, Allocated
    <2>4. PICK owner2, place2 : Taken(owner, place, owner2, place2, s, table, d2, u2)
      BY <1>1, <1>7, <1>9, <2>3, TakeKeeps
    <2>5. /\ owner2 \in Owners /\ place2 \in Places /\ owner2[s] = job.sector /\ place2[s] = table
          /\ s # 0 /\ s # RootDirSector /\ d2 \in [Sector -> Content]
          /\ d2[s] = Zeros /\ d2[RootDirSector] = disk[RootDirSector]
      BY <1>3, <2>4 DEF Taken, Given, Owned, System, RootDirSector
    <2>6. Entry(disk, used, job, table, s, Zeros, d2, u2)
      BY <1>3, <1>9, <2>5 DEF Entry
    <2>7. u2 \in SUBSET Sector /\ used \subseteq u2 /\ u2 \subseteq used \cup {s}
      BY <1>3, <2>3
    <2>8. Visit(owner, place, owner2, place2, table, s, Zeros, d2, u2)
      BY <2>4, <2>5, <2>6, <2>7 DEF Visit, Taken
    <2>9. QED BY <1>1, <1>9, <2>1, <2>2, <2>8
  <1>10. ASSUME job.ptr[table] = 0, Full(used), used' = used, disk' = Cleared(disk, 0),
                job' = [job EXCEPT !.depth = @ + 1, !.ptr = Entered(@, table, 0, Zeros)]
         PROVE \E owner2, place2, s, content :
                 /\ Visit(owner, place, owner2, place2, table, s, content, disk', used')
                 /\ job' = [job EXCEPT !.depth = @ + 1, !.ptr = Entered(@, table, s, content)]
                 /\ UNCHANGED <<dir, open, failed>>
    <2>1. PICK d2 : d2 = disk'
      OBVIOUS
    <2>2. PICK x : x = 0
      OBVIOUS
    <2>3. /\ d2 \in [Sector -> Content] /\ \A t \in Sector : t # 0 => d2[t] = disk[t]
          /\ d2[RootDirSector] = disk[RootDirSector]
      BY <1>3, <1>10, <2>1 DEF Cleared, RootDirSector
    <2>4. owner[0] = 0
      BY <1>2, <1>3 DEF System, FreeMapSector
    <2>5. Kept(owner, disk, d2)
      BY <2>3, <2>4 DEF Kept
    <2>6. Frame(owner, place, disk, owner, place, d2, Owned)
      BY <2>5 DEF Frame, Kept, Owned
    <2>7. TablesOK(owner, place, d2)
      BY <1>2, <2>5 DEF TablesOK, Kept
    <2>8. LeavesOK(owner, place, d2, dir)
      BY <1>2, <2>5 DEF LeavesOK, Kept
    <2>9. Entry(disk, used, job, table, 0, Zeros, d2, used)
      BY <1>3, <1>10 DEF Entry
    <2>10. Visit(owner, place, owner, place, table, 0, Zeros, d2, used)
      BY <1>2, <1>3, <2>3, <2>5, <2>6, <2>7, <2>8, <2>9 DEF Visit
    <2>11. QED BY <1>1, <1>10, <2>1, <2>10
  <1>11. CASE /\ job.ptr[table] = 0
              /\ \E s \in Sector :
                   /\ IF Full(used) THEN s = 0 /\ UNCHANGED used
                      ELSE s = Lowest(used) /\ used' = Allocated(used, s)
                   /\ disk' = Cleared(disk, s)
                   /\ job' = [job EXCEPT !.depth = @ + 1, !.ptr = Entered(@, table, s, Zeros)]
    <2>1. CASE Full(used)
      BY <1>10, <1>11, <2>1
    <2>2. CASE ~Full(used)
      BY <1>9, <1>11, <2>2
    <2>3. QED BY <2>1, <2>2
  <1> QED BY <1>8, <1>11 DEF VisitTable

LEMMA VisitTableKeeps ==
  ASSUME IInv, VisitTable
  PROVE IInv' /\ NoneForgotten
  <1>1. PICK owner, place : HomesOK(owner, place)
    BY DEF IInv
  <1>2. TypeOK
    BY DEF IInv
  <1>3. PICK table : table = Current
    OBVIOUS
  <1>4. PICK j : j = job
    OBVIOUS
  <1>5. PICK d2, u2 : d2 = disk' /\ u2 = used'
    OBVIOUS
  <1>6. PICK owner2, place2, s, content :
          /\ Visit(owner, place, owner2, place2, table, s, content, d2, u2)
          /\ job' = [j EXCEPT !.depth = @ + 1, !.ptr = Entered(@, table, s, content)]
          /\ UNCHANGED <<dir, open, failed>>
    BY <1>1, <1>2, <1>3, <1>4, <1>5, VisitIs
  <1>7. PICK j2 : j2 = job'
    OBVIOUS
  <1>8. PICK o : o = j.sector
    OBVIOUS
  <1>9. /\ j.op \in {"create", "write"} /\ j.at < j.len /\ j.depth # Len(Way(j.at))
        /\ table = Way(j.at)[j.depth]
    BY <1>3, <1>4 DEF VisitTable, Walking, IsLeaf, Current
  <1>10. /\ j \in Jobs /\ owner \in Owners /\ place \in Places
         /\ DiskOK(disk) /\ TablesOK(owner, place, disk)
         /\ o \in Owned /\ owner[o] = o /\ place[o] = Itself
         /\ Homed(owner, place, j.ptr, o, Node) /\ WalkOK(disk, used, j)
         /\ j.ptr \in [Node -> Sector] /\ j.len \in Length
         /\ j.at \in Nat /\ j.depth \in 1 .. 3 /\ j \notin {NoJob, Unmapped}
    BY <1>1, <1>2, <1>4, <1>8, <1>9, JobFacts
  <1>11. j.at \in Block /\ j.depth <= Len(Way(j.at))
    BY <1>9, <1>10, LengthFacts DEF WalkOK
  <1>12. GoodWay(j.at)
    BY <1>11, WayFacts
  <1>13. j.depth \in 1 .. Len(Way(j.at)) - 1 /\ j.depth \in 1 .. 2
    BY <1>9, <1>10, <1>11, <1>12 DEF GoodWay
  <1>14. table \in Table /\ table \in Node
    BY <1>9, <1>12, <1>13, TableFacts DEF GoodWay
  <1>15. s \in Sector /\ content \in Content
    BY <1>6 DEF Visit, Entry
  <1>16. PICK q : q = Entered(j.ptr, table, s, content)
    OBVIOUS
  <1>17. /\ q \in [Node -> Sector] /\ q[table] = s
         /\ \A c \in Children(table) : q[c] = EntryAt(content, Slot(c))
         /\ \A node \in Node : node # table /\ node \notin Children(table) => q[node] = j.ptr[node]
    BY <1>10, <1>14, <1>15, <1>16, EnteredIs
  <1>18. j2 = [j EXCEPT !.depth = j.depth + 1, !.ptr = q]
    BY <1>6, <1>7, <1>16
  <1>19. /\ j2 \in Jobs /\ j2.op = j.op /\ j2.file = j.file /\ j2.sector = o /\ j2.len = j.len
         /\ j2.at = j.at /\ j2.depth = j.depth + 1 /\ j2.ptr = q
    <2>1. PICK k : k = j.depth + 1
      OBVIOUS
    <2>2. k \in 1 .. 3
      BY <1>13, <2>1
    <2>3. j2 = [j EXCEPT !.depth = k, !.ptr = q]
      BY <1>18, <2>1
    <2>4. j \in Jobs /\ q \in [Node -> Sector]
      BY <1>10, <1>17
    <2>5. /\ j2.op = j.op /\ j2.file = j.file /\ j2.sector = j.sector /\ j2.len = j.len
          /\ j2.at = j.at /\ j2.depth = k /\ j2.ptr = q
      BY <2>3, <2>4 DEF Jobs
    <2>6. j2 \in Jobs
      BY <2>2, <2>3, <2>4 DEF Jobs
    <2>7. QED BY <1>8, <2>1, <2>5, <2>6
  <1>20. NextTable(j, j2, table)
    BY <1>9, <1>10, <1>13, <1>19 DEF NextTable
  <1>21. WalkOK(d2, u2, j2) /\ Remembers(j, j2)
    <2>1. Kept(owner, disk, d2) /\ Entry(disk, used, j, table, s, content, d2, u2)
      BY <1>4, <1>6 DEF Visit
    <2>2. \A node \in Node : j.ptr[node] # 0 => owner[j.ptr[node]] = o
      BY <1>10 DEF Homed
    <2>3. j2.ptr = Entered(j.ptr, table, s, content)
      BY <1>16, <1>19
    <2>4. QED BY <1>10, <1>20, <2>1, <2>2, <2>3, WalkEnters
  <1>22. Homed(owner2, place2, q, o, Node)
    <2>1. Frame(owner, place, disk, owner2, place2, d2, Owned)
      BY <1>6 DEF Visit
    <2>2. Homed(owner2, place2, j.ptr, o, Node)
      BY <1>10, <2>1, FrameHomed
    <2>3. s # 0 => owner2[s] = o /\ place2[s] = table
      BY <1>4, <1>6, <1>8 DEF Visit
    <2>4. \A c \in Children(table) :
            q[c] # 0 => owner2[q[c]] = o /\ place2[q[c]] = c
      <3> SUFFICES ASSUME NEW c \in Children(table), q[c] # 0
                   PROVE owner2[q[c]] = o /\ place2[q[c]] = c
        OBVIOUS
      <3>1. q[c] = EntryAt(content, Slot(c))
        BY <1>17
      <3>2. content # Zeros
        BY <3>1 DEF EntryAt, Zeros
      <3>3. s # 0 /\ content = d2[s]
        <4>1. Entry(disk, used, j, table, s, content, d2, u2)
          BY <1>4, <1>6 DEF Visit
        <4>2. s = j.ptr[table] /\ j.ptr[table] # 0 /\ content = disk[s] /\ d2 = disk
          BY <3>2, <4>1 DEF Entry
        <4>3. QED BY <4>2
      <3>4. TablesOK(owner2, place2, d2)
        BY <1>6 DEF Visit
      <3>5. QED BY <1>10, <1>14, <1>15, <2>3, <3>1, <3>3, <3>4 DEF TablesOK, Owned
    <2>5. QED BY <1>17, <2>2, <2>3, <2>4 DEF Homed
  <1>23. JobOK(owner2, place2, d2, u2, dir, open, j2)
    <2>1. owner2[o] = o /\ place2[o] = Itself /\ o # 0
      BY <1>6, <1>10 DEF Visit, Frame, Owned
    <2>2. JobOK(owner, place, disk, used, dir, open, j)
      BY <1>1, <1>4 DEF HomesOK
    <2>3. j.op = "create" => \A f \in Name : dir[f] # o
      BY <1>8, <1>10, <2>2 DEF JobOK
    <2>4. j.op = "write" =>
            /\ dir[j.file] = o /\ open[j.file] # Closed /\ open[j.file].len < j.len
            /\ \A node \in Root : open[j.file].root[node] # 0 =>
                 j.ptr[node] = open[j.file].root[node]
      BY <1>8, <1>10, <2>2 DEF JobOK
    <2>5. \A node \in Root : j.ptr[node] # 0 => q[node] = j.ptr[node]
      <3>1. \A node \in Root : node \notin Children(table) /\ node \in Node
        BY <1>14, TableFacts, RootNode
      <3>2. j.ptr[table] # 0 => s = j.ptr[table]
        BY <1>4, <1>6 DEF Visit, Entry
      <3>3. QED BY <1>17, <3>1, <3>2
    <2>6. j.op = "write" =>
            /\ dir[j.file] = o /\ open[j.file] # Closed /\ open[j.file].len < j.len
            /\ \A node \in Root : open[j.file].root[node] # 0 => q[node] = open[j.file].root[node]
      BY <2>4, <2>5
    <2>7. QED BY <1>19, <1>21, <1>22, <2>1, <2>3, <2>6 DEF JobOK
  <1>24. FilesOK(owner2, place2, d2, dir) /\ OpenOK(owner2, place2, d2, dir, open)
    <2>1. Frame(owner, place, disk, owner2, place2, d2, Owned)
      BY <1>6 DEF Visit
    <2>2. QED BY <1>1, <1>2, <2>1, FilesKept
  <1>25. j2 \notin {NoJob, Unmapped}
    BY <1>9, <1>19 DEF NoJob, Unmapped
  <1>26. TypeOK'
    <2>1. u2 \in SUBSET Sector /\ System \subseteq u2 /\ d2 \in [Sector -> Content]
      BY <1>2, <1>6, TypeFacts DEF Visit
    <2>2. d2[RootDirSector].kind = "inode"
      BY <1>2, <1>6 DEF Visit, TypeOK
    <2>3. QED BY <1>2, <1>5, <1>6, <1>7, <1>19, <2>1, <2>2 DEF TypeOK
  <1>27. /\ OwnersOK(owner2, place2, u2, FALSE)
         /\ TablesOK(owner2, place2, d2) /\ LeavesOK(owner2, place2, d2, dir)
    BY <1>6 DEF Visit
  <1>28. HomesOK(owner2, place2)'
    BY <1>5, <1>6, <1>7, <1>23, <1>24, <1>25, <1>27 DEF HomesOK
  <1>29. Held(disk, dir) \subseteq Held(d2, dir)
    <2>1. Frame(owner, place, disk, owner2, place2, d2, Owned)
      BY <1>6 DEF Visit
    <2>2. QED BY <1>1, <1>2, <2>1, DirectoryOwned, HeldKept
  <1>30. NoneForgotten
    <2>1. u2 \subseteq used \cup {s} /\ dir' = dir
      BY <1>6 DEF Visit
    <2>2. table \in Visited(j2) /\ s = j2.ptr[table]
      BY <1>14, <1>17, <1>19, <1>20, NextTableFacts DEF Visited
    <2>3. j2.sector = j.sector
      BY <1>8, <1>19
    <2>4. QED BY <1>4, <1>5, <1>7, <1>10, <1>21, <1>25, <1>29, <2>1, <2>2, <2>3, WalkForgetsNone
  <1> QED BY <1>26, <1>28, <1>30 DEF IInv

(* The tables on the way to the leaf inode_reserve has reached. *)
LEMMA LeafTables ==
  ASSUME NEW j \in Jobs, j.at < j.len, j.depth = Len(Way(j.at)), NEW leaf, leaf = Way(j.at)[j.depth]
  PROVE /\ j.at \in Block /\ leaf = Leaf(j.at) /\ leaf \in Node /\ leaf \notin Table
        /\ \A node : OnWay(node, j.at) => node = leaf \/ (node \in Table /\ Inside(j, node))
        /\ \A table : Inside(j, table) => OnWay(table, j.at) /\ table \in Table
        /\ leaf \notin Root => OnWay(Up(leaf), j.at)
  <1>1. j.len \in Length /\ j.at \in Nat
    BY DEF Jobs
  <1>2. j.at \in Block
    BY <1>1, LengthFacts
  <1>3. GoodWay(j.at)
    BY <1>2, WayFacts
  <1>4. leaf = Leaf(j.at) /\ leaf \in Node /\ leaf \notin Table
    BY <1>3 DEF GoodWay
  <1>5. ASSUME NEW node, OnWay(node, j.at)
        PROVE node = leaf \/ (node \in Table /\ Inside(j, node))
    <2>1. PICK k \in 1 .. Len(Way(j.at)) : Way(j.at)[k] = node
      BY <1>5 DEF OnWay
    <2>2. k = j.depth \/ k \in 1 .. j.depth - 1
      BY <1>3, <2>1 DEF GoodWay
    <2>3. k \in 1 .. j.depth - 1 => node \in Table
      BY <1>3, <2>1 DEF GoodWay
    <2>4. QED BY <2>1, <2>2, <2>3 DEF Inside
  <1>6. ASSUME NEW table, Inside(j, table)
        PROVE OnWay(table, j.at) /\ table \in Table
    <2>1. PICK k \in 1 .. j.depth - 1 : Way(j.at)[k] = table
      BY <1>6 DEF Inside
    <2>2. k \in 1 .. Len(Way(j.at)) /\ k \in 1 .. Len(Way(j.at)) - 1
      BY <1>3, <2>1 DEF GoodWay
    <2>3. QED BY <1>3, <2>1, <2>2 DEF OnWay, GoodWay
  <1>7. OnWay(leaf, j.at)
    BY <1>3 DEF OnWay, GoodWay
  <1>8. leaf \notin Root => OnWay(Up(leaf), j.at)
    BY <1>2, <1>4, <1>7, WayUp
  <1> QED BY <1>2, <1>4, <1>5, <1>6, <1>8

(* What was visited stays visited when inode_reserve passes a leaf. *)
LEMMA LeafRemembers ==
  ASSUME NEW j \in Jobs, j.at < j.len, j.depth = Len(Way(j.at)), NEW leaf, leaf = Way(j.at)[j.depth],
         NEW j2, j2.at = j.at + 1, NEW q, j2.ptr = q,
         \A node \in Node : j.ptr[node] # 0 => q[node] = j.ptr[node]
  PROVE Remembers(j, j2) /\ leaf \in Visited(j2)
  <1>1. j.at \in Block /\ leaf = Leaf(j.at) /\ leaf \in Node
    BY LeafTables
  <1>2. Needs(j2.at) = Needs(j.at) \cup {node \in Node : OnWay(node, j.at)}
    BY <1>1, NeedsNext
  <1>3. ASSUME NEW node \in Visited(j)
        PROVE node \in Node /\ node \in Needs(j2.at)
    <2>1. CASE node \in Needs(j.at)
      BY <1>2, <2>1 DEF Needs
    <2>2. CASE node \in Table /\ Inside(j, node)
      BY <1>2, <2>2, LeafTables, TableFacts
    <2>3. QED BY <2>1, <2>2 DEF Visited
  <1>4. leaf \in Needs(j2.at)
    <2>1. GoodWay(j.at)
      BY <1>1, WayFacts
    <2>2. OnWay(leaf, j.at)
      BY <2>1 DEF OnWay, GoodWay
    <2>3. QED BY <1>1, <1>2, <2>2
  <1> QED BY <1>3, <1>4 DEF Remembers, Visited

(* The next leaf's way leaves this one at some node, and stays away. *)
LEMMA NextDepthIs ==
  ASSUME job.at \in Block, job.at + 1 \in Block, NEW n, n = job.at + 1, NEW x, x = NextDepth
  PROVE /\ x \in 1 .. 3 /\ x <= Len(Way(n))
        /\ \A h \in 1 .. x - 1 : OnWay(Way(n)[h], job.at)
        /\ \A node : OnWay(node, job.at) /\ OnWay(node, n) =>
             \E h \in 1 .. x - 1 : Way(n)[h] = node
  <1> DEFINE On(k) == OnWay(Way(n)[k], job.at)
             Common == {k \in 1 .. 3 : On(k)}
             Good(k) == /\ k <= Len(Way(n)) /\ ~On(k)
                        /\ \A h \in 1 .. k - 1 : On(h)
  <1>1. GoodWay(n) /\ n \in Block
    BY WayFacts
  <1>2. Len(Way(n)) \in 1 .. 3
    BY <1>1 DEF GoodWay
  <1>3. ~On(Len(Way(n)))
    <2>1. Way(n)[Len(Way(n))] = Leaf(n) /\ n # job.at
      BY <1>1, InodeAssumption DEF GoodWay, Block
    <2>2. QED BY <1>1, <2>1, LeafOnWay
  <1>4. \A k \in 2 .. Len(Way(n)) : On(k) => On(k - 1)
    <2> SUFFICES ASSUME NEW k \in 2 .. Len(Way(n)), On(k)
                 PROVE On(k - 1)
      OBVIOUS
    <2>1. Way(n)[k] \in Node /\ Way(n)[k] \notin Root /\ Up(Way(n)[k]) = Way(n)[k - 1]
      BY <1>1 DEF GoodWay
    <2>2. QED BY <2>1, WayUp
  <1>5. x = CHOOSE k \in 1 .. 3 : Good(k)
    BY Zenon DEF NextDepth
  <1>6. /\ \A k \in 1 .. 3 : On(k) <=> k \in Common
        /\ \A k \in 1 .. 3 : \A h \in 1 .. k - 1 : On(h) <=> h \in Common
    <2>1. \A k \in 1 .. 3 : On(k) <=> k \in Common
      BY Zenon
    <2>2. \A k \in 1 .. 3 : \A h \in 1 .. k - 1 : h \in 1 .. 3
      OBVIOUS
    <2>3. QED BY <2>1, <2>2, Zenon
  <1>7. \A k \in 1 .. 3 : Good(k) <=> /\ k <= Len(Way(n)) /\ k \notin Common
                                      /\ \A h \in 1 .. k - 1 : h \in Common
    BY <1>6, Zenon
  <1>8. PICK l : l = Len(Way(n))
    OBVIOUS
  <1>9. l \in 1 .. 3 /\ l \notin Common /\ \A k \in 2 .. l : k \in Common => k - 1 \in Common
    <2>1. l \in 1 .. 3
      BY <1>2, <1>8
    <2>2. \A k \in 2 .. l : k \in 1 .. 3 /\ k - 1 \in 1 .. 3
      BY <2>1
    <2>3. l \notin Common
      BY <1>3, <1>6, <1>8, <2>1, Zenon
    <2>4. ASSUME NEW k \in 2 .. l, k \in Common
          PROVE k - 1 \in Common
      <3>1. On(k)
        BY <1>6, <2>2, <2>4, Zenon
      <3>2. On(k - 1)
        BY <1>4, <1>8, <3>1, Zenon
      <3>3. QED BY <1>6, <2>2, <3>2, Zenon
    <2>5. QED BY <2>1, <2>3, <2>4
  <1> HIDE DEF On, Common, Good
  <1>10. \E k \in 1 .. 3 : k <= l /\ k \notin Common /\ \A h \in 1 .. k - 1 : h \in Common
    <2>1. CASE 1 \notin Common
      BY <1>9, <2>1
    <2>2. CASE 1 \in Common /\ 2 \notin Common
      BY <1>9, <2>2
    <2>3. CASE 1 \in Common /\ 2 \in Common
      BY <1>9, <2>3
    <2>4. QED BY <2>1, <2>2, <2>3
  <1>11. x \in 1 .. 3 /\ Good(x)
    BY <1>5, <1>7, <1>8, <1>10
  <1>12. x <= l /\ x \notin Common /\ \A h \in 1 .. x - 1 : h \in Common
    BY <1>7, <1>8, <1>11
  <1>13. ASSUME NEW k \in 1 .. l, k \in Common
         PROVE k \in 1 .. x - 1
    <2>1. k = 3 => 2 \in Common
      BY <1>9, <1>13
    <2>2. k = 3 \/ k = 2 => 1 \in Common
      BY <1>9, <1>13, <2>1
    <2>3. QED BY <1>9, <1>11, <1>12, <1>13, <2>1, <2>2
  <1>14. ASSUME NEW node, OnWay(node, job.at), OnWay(node, n)
         PROVE \E h \in 1 .. x - 1 : Way(n)[h] = node
    <2>1. PICK k \in 1 .. Len(Way(n)) : Way(n)[k] = node
      BY <1>14 DEF OnWay
    <2>2. k \in 1 .. 3 /\ OnWay(Way(n)[k], job.at)
      BY <1>2, <1>14, <2>1
    <2>3. k \in Common
      BY <2>2 DEF Common, On
    <2>4. QED BY <1>8, <1>13, <2>1, <2>3
  <1>15. \A h \in 1 .. x - 1 : OnWay(Way(n)[h], job.at)
    BY <1>12 DEF Common, On
  <1> QED BY <1>8, <1>11, <1>12, <1>14, <1>15

LEMMA TableOfIs ==
  ASSUME NEW q \in [Node -> Sector], NEW table \in Table
  PROVE /\ TableOf(q, table) \in Content
        /\ \A c \in Children(table) : EntryAt(TableOf(q, table), Slot(c)) = q[c]
  <1> DEFINE at == [k \in Index |-> q[CHOOSE c \in Children(table) : Slot(c) = k]]
  <1>1. \A k \in Index : (CHOOSE c \in Children(table) : Slot(c) = k) \in Children(table)
    BY TableFacts
  <1>2. \A c \in Children(table) : (CHOOSE b \in Children(table) : Slot(b) = Slot(c)) = c
    BY TableFacts
  <1>3. \A c \in Children(table) : c \in Node /\ Slot(c) \in Index
    BY TableFacts
  <1>4. at \in [Index -> Sector]
    BY <1>1, <1>3
  <1>5. \A c \in Children(table) : at[Slot(c)] = q[c]
    BY <1>2, <1>3
  <1>6. TableOf(q, table) = [kind |-> "table", at |-> at]
    BY DEF TableOf, Index
  <1> HIDE DEF at
  <1>7. TableOf(q, table) \in Content
    BY <1>4, <1>6 DEF Content, Index
  <1>8. \A c \in Children(table) : EntryAt(TableOf(q, table), Slot(c)) = q[c]
    BY <1>5, <1>6 DEF EntryAt
  <1> QED BY <1>7, <1>8

LEMMA FrameTrans ==
  ASSUME NEW owner, NEW place, NEW d, NEW owner2, NEW place2, NEW d2,
         NEW owner3, NEW place3, NEW d3, NEW O,
         Frame(owner, place, d, owner2, place2, d2, O),
         Frame(owner2, place2, d2, owner3, place3, d3, O)
  PROVE Frame(owner, place, d, owner3, place3, d3, O)
  BY DEF Frame

(* The leaf is there or new, and the pointer to it is known.               *)
Reached(owner, place, owner2, place2, leaf, d1, u2, q) ==
  /\ owner2 \in Owners /\ place2 \in Places
  /\ Kept(owner, disk, d1) /\ Frame(owner, place, disk, owner2, place2, d1, Owned)
  /\ OwnersOK(owner2, place2, u2, FALSE)
  /\ TablesOK(owner2, place2, d1) /\ LeavesOK(owner2, place2, d1, dir)
  /\ d1 \in [Sector -> Content] /\ d1[RootDirSector] = disk[RootDirSector]
  /\ u2 \in SUBSET Sector /\ used \subseteq u2 /\ u2 \subseteq used \cup {q[leaf]}
  /\ q \in [Node -> Sector] /\ q[leaf] # 0
  /\ \A node \in Node : node # leaf => q[node] = job.ptr[node]
  /\ job.ptr[leaf] # 0 => q[leaf] = job.ptr[leaf]
  /\ Homed(owner2, place2, q, job.sector, Node)

LEMMA ReachedIs ==
  ASSUME TypeOK, NEW owner, NEW place, HomesOK(owner, place), VisitLeaf,
         NEW leaf, leaf = Current
  PROVE \E owner2, place2, d1, q :
          /\ Reached(owner, place, owner2, place2, leaf, d1, used', q)
          /\ disk' = WrittenBack(d1, q) /\ job' = PastLeaf(q)
          /\ UNCHANGED <<dir, open, failed>>
  <1>1. /\ job.op \in {"create", "write"} /\ job.at < job.len /\ job.depth = Len(Way(job.at))
        /\ leaf = Way(job.at)[job.depth] /\ UNCHANGED <<dir, open, failed>>
    BY DEF VisitLeaf, Walking, IsLeaf, Current
  <1>2. /\ owner \in Owners /\ place \in Places
        /\ DiskOK(disk) /\ TablesOK(owner, place, disk) /\ LeavesOK(owner, place, disk, dir)
        /\ Homed(owner, place, job.ptr, job.sector, Node)
        /\ job \in Jobs /\ job.ptr \in [Node -> Sector] /\ job # Unmapped
        /\ OwnersOK(owner, place, used, FALSE)
    BY <1>1, JobFacts, JobRecord DEF HomesOK
  <1>3. /\ disk \in [Sector -> Content] /\ used \in SUBSET Sector /\ 1 \in Sector
    BY TypeFacts
  <1>4. leaf \in Node
    BY <1>1, <1>2, LeafTables
  <1>5. CASE /\ job.ptr[leaf] # 0 /\ disk' = WrittenBack(disk, job.ptr)
             /\ job' = PastLeaf(job.ptr) /\ UNCHANGED used
    <2>1. PICK q : q = job.ptr
      OBVIOUS
    <2>2. Frame(owner, place, disk, owner, place, disk, Owned) /\ Kept(owner, disk, disk)
      BY DEF Frame, Kept
    <2>3. Reached(owner, place, owner, place, leaf, disk, used, q)
      BY <1>2, <1>3, <1>5, <2>1, <2>2 DEF Reached
    <2>4. QED BY <1>1, <1>5, <2>1, <2>3
  <1>6. ASSUME NEW s, NEW q, job.ptr[leaf] = 0, ~Full(used), s = Lowest(used),
               q = [job.ptr EXCEPT ![leaf] = s], used' = Allocated(used, s),
               disk' = WrittenBack(Cleared(disk, s), q), job' = PastLeaf(q)
        PROVE \E owner2, place2, d1, q2 :
                /\ Reached(owner, place, owner2, place2, leaf, d1, used', q2)
                /\ disk' = WrittenBack(d1, q2) /\ job' = PastLeaf(q2)
                /\ UNCHANGED <<dir, open, failed>>
    <2>1. PICK d1 : d1 = Cleared(disk, s)
      OBVIOUS
    <2>2. PICK u2 : u2 = used'
      OBVIOUS
    <2>3. d1 = [disk EXCEPT ![s] = Zeros] /\ u2 = used \cup {s}
      BY <1>6, <2>1, <2>2 DEF Cleared, Allocated
    <2>4. PICK owner2, place2 : Taken(owner, place, owner2, place2, s, leaf, d1, u2)
      BY <1>1, <1>4, <1>6, <2>3, TakeKeeps
    <2>5. /\ owner2 \in Owners /\ place2 \in Places /\ owner2[s] = job.sector /\ place2[s] = leaf
          /\ s \in Sector /\ s # 0 /\ s # RootDirSector /\ d1 \in [Sector -> Content]
          /\ d1[RootDirSector] = disk[RootDirSector]
      BY <1>3, <2>4 DEF Taken, Given, Owned, System, RootDirSector
    <2>6. u2 \in SUBSET Sector /\ used \subseteq u2 /\ u2 \subseteq used \cup {s}
      BY <1>3, <2>3, <2>5
    <2>7. /\ q \in [Node -> Sector] /\ q[leaf] = s
          /\ \A node \in Node : node # leaf => q[node] = job.ptr[node]
      BY <1>2, <1>4, <1>6, <2>5
    <2>8. Homed(owner2, place2, q, job.sector, Node)
      <3>1. PICK o : o = job.sector
        OBVIOUS
      <3>2. PICK p : p = job.ptr
        OBVIOUS
      <3>3. o \in Owned /\ p \in [Node -> Sector] /\ Homed(owner, place, p, o, Node)
        BY <1>1, <1>2, <3>1, <3>2, JobFacts
      <3>4. Homed(owner2, place2, p, o, Node)
        BY <2>4, <3>3, FrameHomed DEF Taken
      <3>5. QED BY <2>5, <2>7, <3>1, <3>2, <3>4 DEF Homed
    <2>9. Reached(owner, place, owner2, place2, leaf, d1, u2, q)
      BY <1>6, <2>4, <2>5, <2>6, <2>7, <2>8 DEF Reached, Taken
    <2>10. QED BY <1>1, <1>6, <2>1, <2>2, <2>9
  <1>7. CASE /\ job.ptr[leaf] = 0 /\ ~Full(used)
             /\ LET s == Lowest(used)
                    q == [job.ptr EXCEPT ![leaf] = s]
                IN /\ used' = Allocated(used, s)
                   /\ disk' = WrittenBack(Cleared(disk, s), q)
                   /\ job' = PastLeaf(q)
    <2>1. PICK s : s = Lowest(used)
      OBVIOUS
    <2>2. PICK q : q = [job.ptr EXCEPT ![leaf] = s]
      OBVIOUS
    <2>3. /\ used' = Allocated(used, s) /\ disk' = WrittenBack(Cleared(disk, s), q)
          /\ job' = PastLeaf(q)
      BY <1>7, <2>1, <2>2
    <2>4. QED BY <1>6, <1>7, <2>1, <2>2, <2>3
  <1> QED BY <1>5, <1>7 DEF VisitLeaf

(* A table whose last leaf this is holds all its pointers; nothing else on *)
(* the disk changes.                                                       *)
Written(owner, place, j, d1, q, d2) ==
  /\ d2 \in [Sector -> Content]
  /\ \A table \in Table : LastOf(table) =>
       \A c \in Children(table) : EntryAt(d2[q[table]], Slot(c)) = q[c]
  /\ \A s \in Sector : d2[s] = d1[s] \/
       \E table \in Table : /\ LastOf(table) /\ s = q[table] /\ s # 0
                            /\ owner[s] = j.sector /\ place[s] = table

LEMMA WrittenIs ==
  ASSUME NEW owner, NEW place, NEW d1 \in [Sector -> Content], NEW q \in [Node -> Sector],
         NEW j, j = job, Homed(owner, place, q, j.sector, Node),
         \A node \in Node : OnWay(node, j.at) => q[node] # 0,
         NEW d2, d2 = WrittenBack(d1, q)
  PROVE Written(owner, place, j, d1, q, d2)
  <1> DEFINE Here(table, s) == LastOf(table) /\ q[table] = s
             The(s) == CHOOSE table \in Table : Here(table, s)
  <1>1. ASSUME NEW table \in Table, LastOf(table)
        PROVE q[table] \in Sector /\ q[table] # 0
              /\ owner[q[table]] = j.sector /\ place[q[table]] = table
    <2>1. table \in Node /\ OnWay(table, j.at)
      BY <1>1, TableFacts DEF LastOf
    <2>2. QED BY <2>1 DEF Homed
  <1>2. d2 = [s \in Sector |-> IF \E table \in Table : Here(table, s)
                               THEN TableOf(q, The(s)) ELSE d1[s]]
    BY DEF WrittenBack
  <1>3. ASSUME NEW s \in Sector, \E table \in Table : Here(table, s)
        PROVE The(s) \in Table /\ Here(The(s), s)
    BY <1>3
  <1>4. ASSUME NEW table \in Table, LastOf(table)
        PROVE The(q[table]) = table
    <2>1. The(q[table]) \in Table /\ Here(The(q[table]), q[table])
      BY <1>1, <1>3, <1>4
    <2>2. place[q[The(q[table])]] = The(q[table]) /\ place[q[table]] = table
      BY <1>1, <1>4, <2>1
    <2>3. QED BY <2>1, <2>2
  <1>5. ASSUME NEW table \in Table, LastOf(table)
        PROVE d2[q[table]] = TableOf(q, table)
    BY <1>1, <1>2, <1>4, <1>5
  <1>6. \A s \in Sector : d2[s] = d1[s] \/ \E table \in Table : Here(table, s)
    BY <1>2
  <1>7. d2 \in [Sector -> Content]
    <2>1. \A s \in Sector : (\E table \in Table : Here(table, s)) => TableOf(q, The(s)) \in Content
      BY <1>3, TableOfIs
    <2> HIDE DEF The, Here
    <2>2. QED BY <1>2, <2>1
  <1>8. \A table \in Table : LastOf(table) =>
          \A c \in Children(table) : EntryAt(d2[q[table]], Slot(c)) = q[c]
    BY <1>5, TableOfIs
  <1> QED BY <1>1, <1>6, <1>7, <1>8 DEF Written

(* inode_reserve has passed a leaf: it was visited, and so is what was     *)
(* visited before; the tables it was in the middle of are written back or  *)
(* still open.                                                             *)
LEMMA WalkPasses ==
  ASSUME NEW owner, NEW place, NEW owner2, NEW place2, NEW j, NEW j2, NEW leaf,
         NEW d1, NEW d2, NEW u2, NEW q,
         j = job, j \in Jobs, j2 \in Jobs, j.sector \in Owned,
         j.at < j.len, j.depth = Len(Way(j.at)), leaf = Way(j.at)[j.depth],
         j.ptr[leaf] # 0 \/ ~Full(used), WalkOK(disk, used, j),
         Homed(owner, place, j.ptr, j.sector, Node),
         Reached(owner, place, owner2, place2, leaf, d1, u2, q),
         Written(owner2, place2, j, d1, q, d2),
         j2.at = j.at + 1, j2.len = j.len, j2.ptr = q,
         j2.depth = IF j.at + 1 < j.len THEN NextDepth ELSE 1
  PROVE WalkOK(d2, u2, j2)
  <1> DEFINE p == j.ptr
             n == j.at
  <1>1. /\ n \in Block /\ n \in Nat /\ leaf = Leaf(n) /\ leaf \in Node /\ leaf \notin Table
        /\ \A node : OnWay(node, n) => node = leaf \/ (node \in Table /\ Inside(j, node))
        /\ \A table : Inside(j, table) => OnWay(table, n) /\ table \in Table
        /\ leaf \notin Root => OnWay(Up(leaf), n)
    BY LeafTables DEF Jobs
  <1>2. /\ p \in [Node -> Sector] /\ q \in [Node -> Sector] /\ q[leaf] # 0
        /\ \A node \in Node : node # leaf => q[node] = p[node]
        /\ \A node \in Node : p[node] # 0 => q[node] = p[node]
        /\ Homed(owner2, place2, q, j.sector, Node)
        /\ j.sector # 0
    BY DEF Reached, Jobs, Owned
  <1>3. /\ \A node \in Needs(n) : p[node] # 0
        /\ \A table \in Table : table \in Needs(n) /\ ~Inside(j, table) => Agree(disk, j, table)
        /\ \A table \in Table : Inside(j, table) /\ p[table] # 0 =>
             \A c \in Children(table) :
               EntryAt(disk[p[table]], Slot(c)) # 0 => EntryAt(disk[p[table]], Slot(c)) = p[c]
    BY DEF WalkOK
  <1>4. ASSUME NEW table, Inside(j, table)
        PROVE p[table] # 0
    <2>1. PICK k \in 1 .. j.depth - 1 : Way(j.at)[k] = table
      BY <1>4 DEF Inside
    <2>2. j.ptr[Way(j.at)[k]] # 0 \/ (Full(used) /\ j.ptr[Way(j.at)[j.depth]] = 0)
      BY <2>1 DEF WalkOK
    <2>3. QED BY <2>1, <2>2
  <1>5. \A node \in Node : p[node] # 0 => d1[p[node]] = disk[p[node]]
    BY <1>2 DEF Homed, Kept, Reached
  <1>6. /\ n + 1 \in Nat /\ n + 1 <= j.len /\ j.len \in Nat
        /\ n + 1 < j.len => n + 1 \in Block
    <2>1. j.len \in Length
      BY DEF Jobs
    <2>2. j.len \in Nat /\ \A i \in 0 .. j.len - 1 : i \in Block
      BY <2>1, LengthFacts
    <2>3. QED BY <1>1, <2>2
  <1>7. Needs(n + 1) = Needs(n) \cup {node \in Node : OnWay(node, n)}
    BY <1>1, NeedsNext
  <1>8. /\ \A table \in Table : LastOf(table) <=>
             OnWay(table, n) /\ (n + 1 = j.len \/ ~OnWay(table, n + 1))
    BY DEF LastOf
  <1>9. ASSUME n + 1 < j.len
        PROVE /\ j2.depth \in 1 .. 3 /\ j2.depth <= Len(Way(n + 1))
              /\ \A h \in 1 .. j2.depth - 1 : OnWay(Way(n + 1)[h], n)
              /\ \A node : OnWay(node, n) /\ OnWay(node, n + 1) =>
                   \E h \in 1 .. j2.depth - 1 : Way(n + 1)[h] = node
    <2>1. PICK i, x : i = n + 1 /\ x = NextDepth
      OBVIOUS
    <2>2. j2.depth = x /\ job.at \in Block /\ job.at + 1 \in Block /\ i = job.at + 1
      BY <1>1, <1>6, <1>9, <2>1
    <2>3. /\ x \in 1 .. 3 /\ x <= Len(Way(i))
          /\ \A h \in 1 .. x - 1 : OnWay(Way(i)[h], job.at)
          /\ \A node : OnWay(node, job.at) /\ OnWay(node, i) =>
               \E h \in 1 .. x - 1 : Way(i)[h] = node
      BY <2>1, <2>2, NextDepthIs
    <2>4. QED BY <2>1, <2>2, <2>3
  <1>10. \A table : Inside(j2, table) <=>
           n + 1 < j.len /\ \E h \in 1 .. j2.depth - 1 : Way(n + 1)[h] = table
    BY DEF Inside
  <1> HIDE DEF p, n
  <1>11. ASSUME NEW node \in Needs(n + 1)
         PROVE q[node] # 0
    <2>1. node \in Node /\ (node \in Needs(n) \/ OnWay(node, n))
      BY <1>7 DEF Needs
    <2>2. CASE node \in Needs(n)
      BY <1>2, <1>3, <2>1, <2>2
    <2>3. CASE OnWay(node, n)
      BY <1>1, <1>2, <1>4, <2>1, <2>3
    <2>4. QED BY <2>1, <2>2, <2>3
  <1>12. ASSUME n + 1 < j.len, NEW k \in 1 .. j2.depth - 1
         PROVE q[Way(n + 1)[k]] # 0
    <2>1. OnWay(Way(n + 1)[k], n)
      BY <1>9, <1>12
    <2>2. Way(n + 1)[k] \in Node
      BY <1>1, <2>1, TableFacts
    <2>3. QED BY <1>7, <1>11, <2>1, <2>2
  \* A table that is not written back keeps what it has on the disk.
  <1>13. ASSUME NEW table \in Table, ~LastOf(table), p[table] # 0
         PROVE q[table] = p[table] /\ d2[q[table]] = disk[p[table]]
    <2>1. table \in Node /\ q[table] = p[table] /\ q[table] \in Sector
      BY <1>2, <1>13, TableFacts
    <2>2. place2[q[table]] = table
      BY <1>2, <1>13, <2>1 DEF Homed
    <2>3. d2[q[table]] = d1[q[table]]
      BY <1>13, <2>1, <2>2 DEF Written
    <2>4. QED BY <1>5, <1>13, <2>1, <2>3
  <1>14. ASSUME NEW table \in Table, table \in Needs(n + 1), ~Inside(j2, table)
         PROVE Agree(d2, j2, table)
    <2>1. CASE LastOf(table)
      BY <2>1 DEF Written, Agree
    <2>2. CASE ~LastOf(table)
      <3>1. ~OnWay(table, n)
        <4> SUFFICES ASSUME OnWay(table, n)
                     PROVE FALSE
          OBVIOUS
        <4>1. n + 1 # j.len /\ OnWay(table, n + 1)
          BY <1>8, <2>2
        <4>2. n + 1 < j.len
          BY <1>6, <4>1
        <4>3. QED BY <1>9, <1>10, <1>14, <4>1, <4>2
      <3>2. table \in Needs(n) /\ ~Inside(j, table)
        BY <1>1, <1>7, <1>14, <3>1
      <3>3. Agree(disk, j, table) /\ p[table] # 0
        BY <1>3, <3>2
      <3>4. d2[q[table]] = disk[p[table]]
        BY <1>13, <2>2, <3>3
      <3>5. ASSUME NEW c \in Children(table)
            PROVE q[c] = p[c]
        <4>1. c \in Node /\ c \notin Root /\ Up(c) = table
          BY TableFacts
        <4>2. c # leaf
          BY <1>1, <3>1, <4>1
        <4>3. QED BY <1>2, <4>1, <4>2
      <3>6. QED BY <3>3, <3>4, <3>5 DEF Agree, p
    <2>3. QED BY <2>1, <2>2
  <1>15. ASSUME NEW table \in Table, Inside(j2, table), q[table] # 0, NEW c \in Children(table),
                EntryAt(d2[q[table]], Slot(c)) # 0
         PROVE EntryAt(d2[q[table]], Slot(c)) = q[c]
    <2>1. PICK h \in 1 .. j2.depth - 1 : n + 1 < j.len /\ Way(n + 1)[h] = table
      BY <1>10, <1>15
    <2>2. OnWay(table, n)
      BY <1>9, <2>1
    <2>3. OnWay(table, n + 1)
      <3>1. h \in 1 .. Len(Way(n + 1))
        <4>1. GoodWay(n + 1)
          BY <1>6, <2>1, WayFacts
        <4>2. QED BY <1>9, <2>1, <4>1 DEF GoodWay
      <3>2. QED BY <2>1, <3>1 DEF OnWay
    <2>4. ~LastOf(table)
      BY <1>6, <1>8, <2>1, <2>3
    <2>5. Inside(j, table) /\ p[table] # 0
      BY <1>1, <1>4, <2>2
    <2>6. d2[q[table]] = disk[p[table]]
      BY <1>13, <2>4, <2>5
    <2>7. EntryAt(d2[q[table]], Slot(c)) = p[c] /\ p[c] # 0
      BY <1>3, <1>15, <2>5, <2>6
    <2>8. c \in Node
      BY TableFacts
    <2>9. QED BY <1>2, <2>7, <2>8
  <1>16. j2.at <= j2.len /\ (j2.at < j2.len => j2.depth <= Len(Way(j2.at)))
    BY <1>6, <1>9 DEF n
  <1>17. \A node \in Needs(j2.at) : j2.ptr[node] # 0
    BY <1>11 DEF n
  <1>18. j2.at < j2.len => \A k \in 1 .. j2.depth - 1 :
           j2.ptr[Way(j2.at)[k]] # 0 \/ (Full(u2) /\ j2.ptr[Way(j2.at)[j2.depth]] = 0)
    BY <1>12 DEF n
  <1>19. \A table \in Table : table \in Needs(j2.at) /\ ~Inside(j2, table) => Agree(d2, j2, table)
    BY <1>14 DEF n
  <1>20. \A table \in Table : Inside(j2, table) /\ j2.ptr[table] # 0 =>
           \A c \in Children(table) :
             LET x == EntryAt(d2[j2.ptr[table]], Slot(c)) IN x # 0 => x = j2.ptr[c]
    BY <1>15
  <1> QED BY <1>16, <1>17, <1>18, <1>19, <1>20 DEF WalkOK

(* Writing the tables back only adds entries. *)
LEMMA WrittenFrame ==
  ASSUME NEW owner, NEW place, NEW owner2, NEW place2, NEW j, NEW leaf,
         NEW d1, NEW d2, NEW u2, NEW q,
         j = job, j \in Jobs, j.sector \in Owned,
         j.at < j.len, j.depth = Len(Way(j.at)), leaf = Way(j.at)[j.depth],
         j.ptr[leaf] # 0 \/ ~Full(used), WalkOK(disk, used, j),
         Homed(owner, place, j.ptr, j.sector, Node),
         Reached(owner, place, owner2, place2, leaf, d1, u2, q),
         Written(owner2, place2, j, d1, q, d2)
  PROVE /\ Frame(owner2, place2, d1, owner2, place2, d2, Owned)
        /\ TablesOK(owner2, place2, d2)
        /\ \A s \in Sector : place2[s] \notin Table => d2[s] = d1[s]
  <1>1. /\ leaf \in Node /\ leaf \notin Table
        /\ \A node : OnWay(node, j.at) => node = leaf \/ (node \in Table /\ Inside(j, node))
    BY LeafTables
  <1>2. /\ j.ptr \in [Node -> Sector] /\ q \in [Node -> Sector]
        /\ \A node \in Node : node # leaf => q[node] = j.ptr[node]
        /\ \A node \in Node : j.ptr[node] # 0 => q[node] = j.ptr[node]
        /\ Homed(owner2, place2, q, j.sector, Node)
        /\ j.sector # 0
    BY DEF Reached, Jobs, Owned
  <1>3. ASSUME NEW table, Inside(j, table)
        PROVE j.ptr[table] # 0
    <2>1. PICK k \in 1 .. j.depth - 1 : Way(j.at)[k] = table
      BY <1>3 DEF Inside
    <2>2. j.ptr[Way(j.at)[k]] # 0 \/ (Full(used) /\ j.ptr[Way(j.at)[j.depth]] = 0)
      BY <2>1 DEF WalkOK
    <2>3. QED BY <2>1, <2>2
  <1>4. \A node \in Node : j.ptr[node] # 0 => d1[j.ptr[node]] = disk[j.ptr[node]]
    BY <1>2 DEF Homed, Kept, Reached
  <1>5. \A s \in Sector : place2[s] \notin Table => d2[s] = d1[s]
    BY DEF Written
  <1>6. ASSUME NEW s \in Sector, d2[s] # d1[s]
        PROVE \E table \in Table :
                /\ place2[s] = table /\ owner2[s] = j.sector /\ s = q[table] /\ s = j.ptr[table]
                /\ LastOf(table) /\ Inside(j, table) /\ s # 0 /\ d1[s] = disk[s]
    <2>1. PICK table \in Table : /\ LastOf(table) /\ s = q[table] /\ s # 0
                                 /\ owner2[s] = j.sector /\ place2[s] = table
      BY <1>6 DEF Written
    <2>2. table # leaf /\ table \in Node /\ Inside(j, table)
      BY <1>1, <2>1, TableFacts DEF LastOf
    <2>3. s = j.ptr[table]
      BY <1>2, <2>1, <2>2
    <2>4. QED BY <1>4, <2>1, <2>2, <2>3
  <1>7. ASSUME NEW s \in Sector, place2[s] \in Table, NEW k \in Index, EntryAt(d1[s], k) # 0
        PROVE EntryAt(d2[s], k) = EntryAt(d1[s], k)
    <2>1. CASE d2[s] = d1[s]
      BY <2>1
    <2>2. CASE d2[s] # d1[s]
      <3>1. PICK table \in Table :
              /\ place2[s] = table /\ s = q[table] /\ s = j.ptr[table]
              /\ LastOf(table) /\ Inside(j, table) /\ s # 0 /\ d1[s] = disk[s]
        BY <1>6, <2>2
      <3>2. PICK c \in Children(table) : Slot(c) = k
        BY TableFacts
      <3>3. c \in Node
        BY TableFacts
      <3>4. EntryAt(disk[j.ptr[table]], Slot(c)) = j.ptr[c] /\ j.ptr[c] # 0
        BY <1>7, <3>1, <3>2 DEF WalkOK
      <3>5. EntryAt(d2[q[table]], Slot(c)) = q[c]
        BY <3>1 DEF Written
      <3>6. QED BY <1>2, <3>1, <3>2, <3>3, <3>4, <3>5
    <2>3. QED BY <2>1, <2>2
  <1>8. Frame(owner2, place2, d1, owner2, place2, d2, Owned)
    <2>1. \A s \in Sector : place2[s] = Itself => d2[s] = d1[s]
      BY <1>5, ItselfIsNoNode, TableFacts
    <2>2. QED BY <1>7, <2>1 DEF Frame
  <1>9. TablesOK(owner2, place2, d2)
    <2> SUFFICES ASSUME NEW t \in Sector, owner2[t] # 0, place2[t] \in Table,
                        NEW c \in Children(place2[t]), EntryAt(d2[t], Slot(c)) # 0
                 PROVE /\ owner2[EntryAt(d2[t], Slot(c))] = owner2[t]
                       /\ place2[EntryAt(d2[t], Slot(c))] = c
      BY DEF TablesOK
    <2>1. CASE d2[t] = d1[t]
      BY <2>1 DEF Reached, TablesOK
    <2>2. CASE d2[t] # d1[t]
      <3>1. PICK table \in Table :
              /\ place2[t] = table /\ owner2[t] = j.sector /\ t = q[table] /\ LastOf(table)
        BY <1>6, <2>2
      <3>2. EntryAt(d2[t], Slot(c)) = q[c] /\ c \in Node
        BY <3>1, TableFacts DEF Written
      <3>3. QED BY <1>2, <3>1, <3>2 DEF Homed
    <2>3. QED BY <2>1, <2>2
  <1> QED BY <1>5, <1>8, <1>9

LEMMA VisitLeafKeeps ==
  ASSUME IInv, VisitLeaf
  PROVE IInv' /\ NoneForgotten
  <1>1. PICK owner, place : HomesOK(owner, place)
    BY DEF IInv
  <1>2. TypeOK
    BY DEF IInv
  <1>3. PICK leaf : leaf = Current
    OBVIOUS
  <1>4. PICK j : j = job
    OBVIOUS
  <1>5. PICK d2, u2 : d2 = disk' /\ u2 = used'
    OBVIOUS
  <1>6. PICK owner2, place2, d1, q :
          /\ Reached(owner, place, owner2, place2, leaf, d1, u2, q)
          /\ d2 = WrittenBack(d1, q) /\ job' = PastLeaf(q)
          /\ UNCHANGED <<dir, open, failed>>
    BY <1>1, <1>2, <1>3, <1>5, ReachedIs
  <1>7. PICK j2 : j2 = job'
    OBVIOUS
  <1>8. PICK o : o = j.sector
    OBVIOUS
  <1>9. /\ j.op \in {"create", "write"} /\ j.at < j.len /\ j.depth = Len(Way(j.at))
        /\ leaf = Way(j.at)[j.depth]
    BY <1>3, <1>4 DEF VisitLeaf, Walking, IsLeaf, Current
  <1>10. j.ptr[leaf] # 0 \/ ~Full(used)
    BY <1>3, <1>4 DEF VisitLeaf
  <1>11. /\ j \in Jobs /\ owner \in Owners /\ place \in Places
         /\ o \in Owned /\ owner[o] = o /\ place[o] = Itself
         /\ Homed(owner, place, j.ptr, o, Node) /\ WalkOK(disk, used, j)
         /\ j.ptr \in [Node -> Sector] /\ j.len \in Length /\ j.at \in Nat
         /\ j \notin {NoJob, Unmapped}
    BY <1>1, <1>2, <1>4, <1>8, <1>9, JobFacts
  <1>12. /\ leaf \in Node
         /\ \A node : OnWay(node, j.at) => node = leaf \/ (node \in Table /\ Inside(j, node))
    BY <1>9, <1>11, LeafTables
  <1>13. /\ q \in [Node -> Sector] /\ q[leaf] # 0
         /\ \A node \in Node : j.ptr[node] # 0 => q[node] = j.ptr[node]
         /\ Homed(owner2, place2, q, o, Node)
         /\ d1 \in [Sector -> Content] /\ d1[RootDirSector] = disk[RootDirSector]
    BY <1>4, <1>6, <1>8 DEF Reached
  <1>14. Written(owner2, place2, j, d1, q, d2)
    <2>1. \A node \in Node : OnWay(node, j.at) => q[node] # 0
      <3> SUFFICES ASSUME NEW node \in Node, OnWay(node, j.at)
                   PROVE q[node] # 0
        OBVIOUS
      <3>1. CASE node = leaf
        BY <1>13, <3>1
      <3>2. CASE node # leaf
        <4>1. PICK k \in 1 .. j.depth - 1 : Way(j.at)[k] = node
          BY <1>12, <3>2 DEF Inside
        <4>2. j.ptr[Way(j.at)[k]] # 0 \/ (Full(used) /\ j.ptr[Way(j.at)[j.depth]] = 0)
          BY <1>9, <1>11, <4>1 DEF WalkOK
        <4>3. QED BY <1>9, <1>10, <1>13, <4>1, <4>2
      <3>3. QED BY <3>1, <3>2
    <2>2. Homed(owner2, place2, q, j.sector, Node)
      BY <1>8, <1>13
    <2>3. QED BY <1>4, <1>6, <1>13, <2>1, <2>2, WrittenIs
  <1>15. /\ Frame(owner2, place2, d1, owner2, place2, d2, Owned)
         /\ TablesOK(owner2, place2, d2)
         /\ \A s \in Sector : place2[s] \notin Table => d2[s] = d1[s]
    BY <1>4, <1>6, <1>8, <1>9, <1>10, <1>11, <1>14, WrittenFrame
  <1>16. Frame(owner, place, disk, owner2, place2, d2, Owned)
    <2>1. Frame(owner, place, disk, owner2, place2, d1, Owned)
      BY <1>6 DEF Reached
    <2>2. QED BY <1>15, <2>1, FrameTrans
  <1>17. LeavesOK(owner2, place2, d2, dir)
    <2>1. LeavesOK(owner2, place2, d1, dir)
      BY <1>6 DEF Reached
    <2>2. QED BY <1>15, <2>1 DEF LeavesOK
  <1>18. PICK x : x = IF j.at + 1 < j.len THEN NextDepth ELSE 1
    OBVIOUS
  <1>19. x \in 1 .. 3
    <2>1. j.at \in Block /\ \A i \in 0 .. j.len - 1 : i \in Block
      BY <1>9, <1>11, LengthFacts
    <2>2. CASE j.at + 1 < j.len
      <3>1. j.at + 1 \in Block /\ j.len \in Nat
        BY <1>11, <2>1, <2>2, LengthFacts
      <3>2. PICK n : n = job.at + 1
        OBVIOUS
      <3>3. x = NextDepth /\ job.at \in Block /\ job.at + 1 \in Block
        BY <1>4, <1>18, <2>1, <2>2, <3>1
      <3>4. QED BY <3>2, <3>3, NextDepthIs
    <2>3. CASE ~(j.at + 1 < j.len)
      BY <1>18, <2>3
    <2>4. QED BY <2>2, <2>3
  <1>20. j2 = [j EXCEPT !.at = j.at + 1, !.ptr = q, !.depth = x]
    BY <1>4, <1>6, <1>7, <1>18 DEF PastLeaf
  <1>21. /\ j2 \in Jobs /\ j2.op = j.op /\ j2.file = j.file /\ j2.sector = o /\ j2.len = j.len
         /\ j2.at = j.at + 1 /\ j2.depth = x /\ j2.ptr = q
    <2>1. PICK i : i = j.at + 1
      OBVIOUS
    <2>2. i \in Nat
      BY <1>11, <2>1
    <2>3. j2 = [j EXCEPT !.at = i, !.ptr = q, !.depth = x]
      BY <1>20, <2>1
    <2>4. j \in Jobs /\ q \in [Node -> Sector] /\ x \in 1 .. 3
      BY <1>11, <1>13, <1>19
    <2>5. /\ j2.op = j.op /\ j2.file = j.file /\ j2.sector = j.sector /\ j2.len = j.len
          /\ j2.at = i /\ j2.depth = x /\ j2.ptr = q
      BY <2>3, <2>4 DEF Jobs
    <2>6. j2 \in Jobs
      BY <2>2, <2>3, <2>4 DEF Jobs
    <2>7. QED BY <1>8, <2>1, <2>5, <2>6
  <1>22. WalkOK(d2, u2, j2)
    <2>1. j2.depth = IF j.at + 1 < j.len THEN NextDepth ELSE 1
      BY <1>18, <1>21
    <2>2. j.sector \in Owned /\ Homed(owner, place, j.ptr, j.sector, Node)
      BY <1>8, <1>11
    <2>3. QED
      <3>1. /\ j = job /\ j \in Jobs /\ j2 \in Jobs /\ j.sector \in Owned
            /\ j.at < j.len /\ j.depth = Len(Way(j.at)) /\ leaf = Way(j.at)[j.depth]
        BY <1>4, <1>9, <1>11, <1>21, <2>2, Zenon
      <3>2. /\ j.ptr[leaf] # 0 \/ ~Full(used)
            /\ WalkOK(disk, used, j)
            /\ Homed(owner, place, j.ptr, j.sector, Node)
            /\ Reached(owner, place, owner2, place2, leaf, d1, u2, q)
            /\ Written(owner2, place2, j, d1, q, d2)
        BY <1>6, <1>10, <1>11, <1>14, <2>2, Zenon
      <3>3. j2.at = j.at + 1 /\ j2.len = j.len /\ j2.ptr = q
        BY <1>21, Zenon
      <3>4. QED BY <2>1, <3>1, <3>2, <3>3, WalkPasses, Zenon
  <1>23. JobOK(owner2, place2, d2, u2, dir, open, j2)
    <2>1. owner2[o] = o /\ place2[o] = Itself /\ o # 0
      BY <1>11, <1>16 DEF Frame, Owned
    <2>2. JobOK(owner, place, disk, used, dir, open, j)
      BY <1>1, <1>4 DEF HomesOK
    <2>3. j.op = "create" => \A f \in Name : dir[f] # o
      BY <1>8, <1>11, <2>2 DEF JobOK
    <2>4. j.op = "write" =>
            /\ dir[j.file] = o /\ open[j.file] # Closed /\ open[j.file].len < j.len
            /\ \A node \in Root : open[j.file].root[node] # 0 =>
                 j.ptr[node] = open[j.file].root[node]
      BY <1>8, <1>11, <2>2 DEF JobOK
    <2>5. \A node \in Root : j.ptr[node] # 0 => q[node] = j.ptr[node]
      BY <1>13, RootNode
    <2>6. j.op = "write" =>
            /\ dir[j.file] = o /\ open[j.file] # Closed /\ open[j.file].len < j.len
            /\ \A node \in Root : open[j.file].root[node] # 0 => q[node] = open[j.file].root[node]
      BY <2>4, <2>5
    <2>7. QED BY <1>13, <1>21, <1>22, <2>1, <2>3, <2>6 DEF JobOK
  <1>24. FilesOK(owner2, place2, d2, dir) /\ OpenOK(owner2, place2, d2, dir, open)
    BY <1>1, <1>2, <1>16, FilesKept
  <1>25. j2 \notin {NoJob, Unmapped}
    BY <1>9, <1>21 DEF NoJob, Unmapped
  <1>26. OwnersOK(owner2, place2, u2, FALSE)
    BY <1>6 DEF Reached
  <1>27. TypeOK'
    <2>1. u2 \in SUBSET Sector /\ System \subseteq u2
      BY <1>2, <1>6, TypeFacts DEF Reached
    <2>2. d2 \in [Sector -> Content]
      BY <1>14 DEF Written
    <2>3. d2[RootDirSector] = d1[RootDirSector]
      <3>1. RootDirSector \in Sector /\ RootDirSector \in System
        BY <1>2, TypeFacts DEF System, RootDirSector
      <3>2. owner2[RootDirSector] = 0
        BY <1>26, <3>1 DEF OwnersOK
      <3>3. QED BY <1>8, <1>11, <1>14, <3>1, <3>2 DEF Written, Owned
    <2>4. d2[RootDirSector].kind = "inode"
      BY <1>2, <1>13, <2>3 DEF TypeOK
    <2>5. QED BY <1>2, <1>5, <1>6, <1>7, <1>21, <2>1, <2>2, <2>4 DEF TypeOK
  <1>28. HomesOK(owner2, place2)'
    BY <1>5, <1>6, <1>7, <1>15, <1>17, <1>23, <1>24, <1>25, <1>26 DEF HomesOK
  <1>29. Held(disk, dir) \subseteq Held(d2, dir)
    BY <1>1, <1>2, <1>16, DirectoryOwned, HeldKept
  <1>30. NoneForgotten
    <2>1. u2 \subseteq used \cup {q[leaf]} /\ dir' = dir
      BY <1>6 DEF Reached
    <2>2. Remembers(j, j2) /\ leaf \in Visited(j2)
      BY <1>9, <1>11, <1>13, <1>21, LeafRemembers
    <2>3. j2.sector = j.sector /\ q[leaf] = j2.ptr[leaf]
      BY <1>8, <1>21
    <2>4. QED BY <1>4, <1>5, <1>7, <1>11, <1>25, <1>29, <2>1, <2>2, <2>3, WalkForgetsNone
  <1> QED BY <1>27, <1>28, <1>30 DEF IInv

-----------------------------------------------------------------------------
LEMMA StutterKeeps ==
  ASSUME IInv, UNCHANGED vars
  PROVE IInv'
  <1>1. PICK owner, place : HomesOK(owner, place)
    BY DEF IInv
  <1>2. TypeOK /\ UNCHANGED <<used, disk, dir, open, job, failed>>
    BY DEF IInv, vars
  <1>3. TypeOK'
    BY <1>2 DEF TypeOK
  <1>4. HomesOK(owner, place)'
    BY <1>1, <1>2 DEF HomesOK
  <1> QED BY <1>3, <1>4 DEF IInv

LEMMA NextKeeps ==
  ASSUME IInv, [Next]_vars
  PROVE IInv'
  <1>1. ASSUME NEW f \in Name, NEW n \in {0} \cup Lengths, Create(f, n)
        PROVE IInv'
    BY <1>1, CreateKeeps DEF Length
  <1>2. ASSUME NEW f \in Name, NEW n \in Lengths, WriteInside(f, n)
        PROVE IInv'
    BY <1>2, WriteInsideKeeps
  <1>3. ASSUME NEW f \in Name, NEW n \in Lengths, WritePast(f, n)
        PROVE IInv'
    BY <1>3, WritePastKeeps
  <1>4. ASSUME NEW f \in Name, Remove(f)
        PROVE IInv'
    BY <1>4, RemoveKeeps
  <1>5. CASE VisitTable
    BY <1>5, VisitTableKeeps
  <1>6. CASE VisitLeaf
    BY <1>6, VisitLeafKeeps
  <1>7. CASE Fail
    BY <1>7, FailKeeps
  <1>8. CASE FinishCreate
    BY <1>8, FinishCreateKeeps
  <1>9. CASE FinishWrite
    BY <1>9, FinishWriteKeeps
  <1>10. CASE Restart
    BY <1>10, RestartKeeps
  <1>11. CASE UNCHANGED vars
    BY <1>11, StutterKeeps
  <1> QED BY <1>1, <1>2, <1>3, <1>4, <1>5, <1>6, <1>7, <1>8, <1>9, <1>10, <1>11 DEF Next

-----------------------------------------------------------------------------
(* Every sector given out lies in one inode, at one place of it, through   *)
(* creations, extensions, removals, requests cut short by a full disk, and *)
(* restarts, a table read into sector 0 included (inode_reserve,           *)
(* inode_deallocate, free_map_allocate, free_map_release).                 *)
THEOREM InodeInvariant == Spec => []IInv
  <1>1. Init => IInv
    BY InitHomes
  <1>2. IInv /\ [Next]_vars => IInv'
    BY NextKeeps
  <1> QED BY <1>1, <1>2, PTL DEF Spec

(* The variables keep their types, the sectors of the two system files are *)
(* never handed out or released, and the root directory keeps its inode    *)
(* (filesys_create, filesys_remove, free_map_release).                     *)
THEOREM InodeTypes == Spec => []TypeOK
  <1>1. IInv => TypeOK
    BY DEF IInv
  <1> QED BY <1>1, InodeInvariant, PTL

(* The inodes, tables and data of all files lie in sectors of their own,   *)
(* none of them a system file's (inode_reserve, inode_deallocate).         *)
THEOREM FilesDisjoint == Spec => []NoSharedSector
  <1> QED BY InodeInvariant, SectorsDisjoint, PTL

(* While the free map can be read, what a file occupies is marked used in  *)
(* it, so that free_map_allocate never hands it out again.                 *)
THEOREM FilesStayMarked == Spec => []OwnedAreUsed
  <1> QED BY InodeInvariant, OwnedUsed, PTL

(* The inode of an open file has the length of the one on the disk and the *)
(* same blocks within it, also after a failed inode_reserve left more      *)
(* pointers in memory.                                                     *)
THEOREM MemoryAgrees == Spec => []OpenMatchesDisk
  <1> QED BY InodeInvariant, MemoryMatches, PTL

(* A sector within a file's length holds zeros or data of this file, never *)
(* what a removed file left there (the zero fill of inode_reserve).        *)
THEOREM ContentIsOwn == Spec => []OwnContent
  <1> QED BY InodeInvariant, ContentsOwn, PTL
-----------------------------------------------------------------------------
(* Nothing is lost as long as no request has failed.                       *)

LEMMA AccountedNext ==
  ASSUME Accounted, NoneForgotten, failed => failed', job = Unmapped => job' = Unmapped
  PROVE Accounted'
  <1> SUFFICES ASSUME ~failed', job' # Unmapped
               PROVE used' \subseteq System \cup Held(disk', dir') \cup Walked(job')
    BY DEF Accounted
  <1>1. ~failed /\ job # Unmapped
    OBVIOUS
  <1>2. used \subseteq System \cup Held(disk, dir) \cup Walked(job)
    BY <1>1 DEF Accounted
  <1> QED BY <1>2 DEF NoneForgotten

LEMMA CreateAccounts ==
  ASSUME IInv, NEW f \in Name, NEW n \in Length, Create(f, n)
  PROVE NoneForgotten
  <1>1. TypeOK
    BY DEF IInv
  <1>2. PICK s : s = Lowest(used)
    OBVIOUS
  <1>3. PICK j : j = Reserve("create", f, s, NoBlocks, n)
    OBVIOUS
  <1>4. /\ used' = used \cup {s} /\ UNCHANGED <<disk, dir>>
        /\ job = NoJob /\ ~Full(used) /\ job' = j
    BY <1>2, <1>3 DEF Create, Allocated
  <1>5. s \in Sector
    BY <1>1, <1>2, <1>4, TypeFacts, LowestIsFree
  <1>6. NoBlocks \in Roots
    BY <1>1, TypeFacts DEF NoBlocks, Roots
  <1>7. j.sector = s /\ j \notin {NoJob, Unmapped}
    BY <1>3, <1>5, <1>6, ReserveIs
  <1>8. Walked(job) = {} /\ s \in Walked(job')
    BY <1>4, <1>7 DEF Walked
  <1> QED BY <1>4, <1>8 DEF NoneForgotten

(* A step that gives out no sector while no request is under way. *)
LEMMA IdleForgetsNone ==
  ASSUME job \in {NoJob, Unmapped}, UNCHANGED <<used, disk, dir>>
  PROVE NoneForgotten
  <1>1. Walked(job) = {}
    BY DEF Walked
  <1> QED BY <1>1 DEF NoneForgotten

(* rm releases what the file occupied, and nothing of another file. *)
LEMMA RemoveAccounts ==
  ASSUME IInv, Accounted, NEW f \in Name, Remove(f)
  PROVE Accounted'
  <1>1. TypeOK
    BY DEF IInv
  <1>2. /\ job = NoJob /\ dir' = [dir EXCEPT ![f] = 0] /\ UNCHANGED <<disk, job, failed>>
        /\ used' = used \ Released(f) /\ dir[f] # 0
    BY DEF Remove, Exists
  <1>3. \A g \in Name : g # f => dir'[g] = dir[g]
    BY <1>1, <1>2, TypeFacts
  <1>4. Released(f) = SectorsAt(disk, dir[f])
    BY DEF Released, SectorsAt, OnDisk, PointersOf
  <1>5. Held(disk, dir) \subseteq SectorsAt(disk, dir[f]) \cup Held(disk, dir')
    BY <1>3 DEF Held
  <1>6. Walked(job) = {}
    BY <1>2 DEF Walked
  <1> SUFFICES ASSUME ~failed', job' # Unmapped
               PROVE used' \subseteq System \cup Held(disk', dir') \cup Walked(job')
    BY DEF Accounted
  <1>7. used \subseteq System \cup Held(disk, dir)
    BY <1>2, <1>6 DEF Accounted
  <1> QED BY <1>2, <1>4, <1>5, <1>7

LEMMA NextAccounts ==
  ASSUME IInv, Accounted, [Next]_vars
  PROVE Accounted'
  <1> USE DEF IInv
  <1>1. ASSUME NEW f \in Name, NEW n \in {0} \cup Lengths, Create(f, n)
        PROVE Accounted'
    <2>1. NoneForgotten
      BY <1>1, CreateAccounts DEF Length
    <2>2. job = NoJob /\ failed' = failed
      BY <1>1 DEF Create
    <2>3. QED BY <2>1, <2>2, JobRecord, AccountedNext
  <1>2. ASSUME NEW f \in Name, NEW n \in Lengths, WriteInside(f, n)
        PROVE Accounted'
    <2>1. NoneForgotten
      BY <1>2, WriteInsideKeeps
    <2>2. job' = job /\ failed' = failed
      BY <1>2 DEF WriteInside
    <2>3. QED BY <2>1, <2>2, AccountedNext
  <1>3. ASSUME NEW f \in Name, NEW n \in Lengths, WritePast(f, n)
        PROVE Accounted'
    <2>1. job = NoJob /\ UNCHANGED <<used, disk, dir, failed>>
      BY <1>3 DEF WritePast
    <2>2. NoneForgotten
      BY <2>1, IdleForgetsNone
    <2>3. QED BY <2>1, <2>2, JobRecord, AccountedNext
  <1>4. ASSUME NEW f \in Name, Remove(f)
        PROVE Accounted'
    BY <1>4, RemoveAccounts
  <1>5. CASE VisitTable
    <2>1. NoneForgotten
      BY <1>5, VisitTableKeeps
    <2>2. job.op \in {"create", "write"} /\ failed' = failed
      BY <1>5 DEF VisitTable, Walking
    <2>3. QED BY <2>1, <2>2, JobRecord, AccountedNext
  <1>6. CASE VisitLeaf
    <2>1. NoneForgotten
      BY <1>6, VisitLeafKeeps
    <2>2. job.op \in {"create", "write"} /\ failed' = failed
      BY <1>6 DEF VisitLeaf, Walking
    <2>3. QED BY <2>1, <2>2, JobRecord, AccountedNext
  <1>7. CASE Fail
    BY <1>7 DEF Fail, Accounted
  <1>8. CASE FinishCreate
    <2>1. failed' \/ NoneForgotten
      BY <1>8, FinishCreateKeeps
    <2>2. job.op \in {"create", "write"} /\ (failed => failed')
      BY <1>8 DEF FinishCreate
    <2>3. CASE failed'
      BY <2>3 DEF Accounted
    <2>4. CASE NoneForgotten
      BY <2>2, <2>4, JobRecord, AccountedNext
    <2>5. QED BY <2>1, <2>3, <2>4
  <1>9. CASE FinishWrite
    <2>1. NoneForgotten
      BY <1>9, FinishWriteKeeps
    <2>2. job.op \in {"create", "write"} /\ failed' = failed
      BY <1>9 DEF FinishWrite
    <2>3. QED BY <2>1, <2>2, JobRecord, AccountedNext
  <1>10. CASE Restart
    <2>1. CASE MapReadable
      <3>1. job \in {NoJob, Unmapped} /\ UNCHANGED <<used, disk, dir, job, failed>>
        BY <1>10, <2>1 DEF Restart
      <3>2. NoneForgotten
        BY <3>1, IdleForgetsNone
      <3>3. QED BY <3>1, <3>2, AccountedNext
    <2>2. CASE ~MapReadable
      <3>1. job' = Unmapped
        BY <1>10, <2>2 DEF Restart
      <3>2. QED BY <3>1 DEF Accounted
    <2>3. QED BY <2>1, <2>2
  <1>11. CASE UNCHANGED vars
    BY <1>11 DEF vars, Accounted
  <1> QED BY <1>1, <1>2, <1>3, <1>4, <1>5, <1>6, <1>7, <1>8, <1>9, <1>10, <1>11 DEF Next

LEMMA AllAccounted ==
  ASSUME IInv, Accounted
  PROVE NothingLost
  <1> SUFFICES ASSUME job = NoJob, ~failed
               PROVE used = System \cup UNION {Occupies(f) : f \in Files}
    BY DEF NothingLost
  <1>1. TypeOK
    BY DEF IInv
  <1>2. job # Unmapped /\ Walked(job) = {}
    BY <1>1, JobRecord DEF Walked
  <1>3. \A f \in Files : SectorsAt(disk, dir[f]) = Occupies(f)
    BY DEF SectorsAt, Occupies, BlocksOf, OnDisk, PointersOf
  <1>4. Files = {f \in Name : dir[f] # 0}
    BY DEF Files, Exists
  <1>5. Held(disk, dir) = UNION {Occupies(f) : f \in Files}
    BY <1>3, <1>4 DEF Held
  <1>6. used \subseteq System \cup UNION {Occupies(f) : f \in Files}
    BY <1>2, <1>5 DEF Accounted
  <1>7. System \subseteq used /\ \A f \in Files : Occupies(f) \subseteq used
    BY <1>1, <1>2, TypeFacts, OwnedUsed DEF OwnedAreUsed
  <1> QED BY <1>6, <1>7

(* As long as no request has failed, a used sector belongs to a system     *)
(* file or to a file of the directory: rm returns the inode, the tables    *)
(* and the data, and a finished create or write keeps no sector beyond     *)
(* its length (inode_reserve, inode_deallocate).                           *)
THEOREM NothingIsLost == Spec => []NothingLost
  <1>1. Init => Accounted
    BY DEF Init, Accounted
  <1>2. IInv /\ Accounted /\ [Next]_vars => Accounted'
    BY NextAccounts
  <1>3. IInv /\ Accounted => NothingLost
    BY AllAccounted
  <1> QED BY <1>1, <1>2, <1>3, InodeInvariant, PTL DEF Spec
===============================================================================
