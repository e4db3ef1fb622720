-------------------------- MODULE BufferCacheProofs --------------------------
(***************************************************************************)
(* Proofs about BufferCache for every size of the cache, every set of      *)
(* sectors and every set of contents.                                      *)
(***************************************************************************)
EXTENDS BufferCache, TLAPS

(* Right after a close no slot is dirty. *)
CloseLeavesClean ==
  op = "close" => \A i \in Slot : cache[i].occupied => ~cache[i].dirty

(* The inductive invariant: the parts need each other.  A write-back may   *)
(* not touch the sector of another clean slot (OneSlotPerSector), and what *)
(* is durable after a close follows from the clean slots.                  *)
IInv ==
  /\ TypeOK
  /\ OneSlotPerSector
  /\ CleanMatchesDisk
  /\ CloseLeavesClean

USE CacheAssumption

-----------------------------------------------------------------------------
(* What the helpers of a miss return: the swept cache differs from the     *)
(* cache in access bits only.                                              *)
LEMMA SweptOnlyAccess ==
  ASSUME TypeOK, NEW v \in Slot
  PROVE  /\ Swept(v) \in [Slot -> Entry]
         /\ \A i \in Slot : /\ Swept(v)[i].occupied = cache[i].occupied
                            /\ Swept(v)[i].sector = cache[i].sector
                            /\ Swept(v)[i].buffer = cache[i].buffer
                            /\ Swept(v)[i].dirty = cache[i].dirty
  <1>. DEFINE cleared(i) == [cache[i] EXCEPT !.access = FALSE]
  <1>1. \A i \in Slot : cache[i] \in Entry
    BY DEF TypeOK
  <1>2. \A i \in Slot : /\ cleared(i) \in Entry
                        /\ cleared(i).occupied = cache[i].occupied
                        /\ cleared(i).sector = cache[i].sector
                        /\ cleared(i).buffer = cache[i].buffer
                        /\ cleared(i).dirty = cache[i].dirty
    BY <1>1 DEF Entry
  <1>3. \A i \in Slot : Swept(v)[i] \in {cache[i], cleared(i)}
    BY DEF Swept
  <1>4. Swept(v) \in [Slot -> Entry]
    <2>. HIDE DEF cleared
    <2>1. Swept(v) = [i \in Slot |-> Swept(v)[i]]
      BY DEF Swept
    <2>2. QED
      BY <1>1, <1>2, <1>3, <2>1
  <1>. HIDE DEF cleared
  <1>5. QED
    BY <1>2, <1>3, <1>4

(* The write-back changes the disk at the sector of the victim, if at all. *)
LEMMA FlushedOnlyVictim ==
  ASSUME TypeOK, NEW v \in Slot
  PROVE  /\ Flushed(v) \in [Sector -> Content \cup {Absent}]
         /\ \A s \in Device : Flushed(v)[s] # Absent
         /\ \A s \in Sector : Flushed(v)[s] # disk[s] =>
              cache[v].occupied /\ cache[v].sector = s
         /\ \A s \in Sector : cache[v].occupied /\ cache[v].dirty /\ cache[v].sector = s
              => Flushed(v)[s] = cache[v].buffer
  BY DEF TypeOK, Flushed, BlockWrite, Entry

(* A slot that has just been filled is clean and agrees with the disk. *)
LEMMA FilledMatches ==
  ASSUME TypeOK, NEW v \in Slot, NEW s \in Sector
  PROVE  /\ Filled(v, s) \in Entry
         /\ Filled(v, s).occupied
         /\ Filled(v, s).sector = s
         /\ ~Filled(v, s).dirty
         /\ Flushed(v)[s] # Absent => Filled(v, s).buffer = Flushed(v)[s]
  <1>1. Filled(v, s).buffer \in Content
    BY FlushedOnlyVictim DEF Filled, BlockRead, TypeOK, Entry
  <1>2. QED
    BY <1>1 DEF Filled, BlockRead, Entry

-----------------------------------------------------------------------------
(* A miss of either kind replaces the victim by an entry e of sector s,    *)
(* clean and equal to the disk, or dirty.                                  *)
LEMMA MissKeepsInvariant ==
  ASSUME IInv, NEW s \in Sector, Miss(s), NEW v \in Slot, NEW e \in Entry,
         e.occupied, e.sector = s,
         ~e.dirty => (Flushed(v)[s] # Absent => e.buffer = Flushed(v)[s]),
         cache' = [Swept(v) EXCEPT ![v] = e], clock' = v, disk' = Flushed(v),
         result' \in Content, op' \in {"read", "write"}
  PROVE  IInv'
  <1>. USE DEF IInv
  <1>1. TypeOK'
    BY SweptOnlyAccess, FlushedOnlyVictim DEF TypeOK
  <1>2. \A i \in Slot \ {v} : /\ cache'[i].occupied = cache[i].occupied
                              /\ cache'[i].sector = cache[i].sector
                              /\ cache'[i].buffer = cache[i].buffer
                              /\ cache'[i].dirty = cache[i].dirty
    BY SweptOnlyAccess
  <1>3. cache'[v] = e
    BY SweptOnlyAccess
  <1>4. OneSlotPerSector'
    BY <1>2, <1>3 DEF OneSlotPerSector, Miss, Holds
  <1>5. CleanMatchesDisk'
    <2>. SUFFICES ASSUME NEW i \in Slot,
                         cache'[i].occupied, ~cache'[i].dirty,
                         disk'[cache'[i].sector] # Absent
                  PROVE  cache'[i].buffer = disk'[cache'[i].sector]
      BY DEF CleanMatchesDisk
    <2>1. CASE i = v
      BY <2>1, <1>3
    <2>2. CASE i # v
      <3>1. cache[i].sector \in Sector
        BY DEF TypeOK, Entry
      <3>2. disk'[cache[i].sector] = disk[cache[i].sector]
        BY <2>2, <1>2, <3>1, FlushedOnlyVictim DEF OneSlotPerSector
      <3>3. QED
        BY <2>2, <1>2, <3>2 DEF CleanMatchesDisk
    <2>3. QED
      BY <2>1, <2>2
  <1>6. CloseLeavesClean'
    BY DEF CloseLeavesClean
  <1>7. QED
    BY <1>1, <1>4, <1>5, <1>6

(* Closing writes back the one slot of every dirty sector. *)
LEMMA CloseWritesBack ==
  ASSUME IInv, Close
  PROVE  \A s \in Sector :
           /\ \A i \in Slot : Holds(i, s) /\ cache[i].dirty => disk'[s] = cache[i].buffer
           /\ disk'[s] # disk[s] => \E i \in Slot : Holds(i, s) /\ cache[i].dirty
           /\ disk'[s] \in {disk[s]} \cup Content
  <1>. TAKE s \in Sector
  <1>1. CASE DirtySlot(s) = {}
    BY <1>1 DEF Close, DirtySlot
  <1>2. CASE DirtySlot(s) # {}
    <2>1. PICK i \in Slot : Holds(i, s) /\ cache[i].dirty
      BY <1>2 DEF DirtySlot
    <2>2. DirtySlot(s) = {i}
      BY <2>1 DEF DirtySlot, Holds, IInv, OneSlotPerSector
    <2>3. (CHOOSE k \in DirtySlot(s) : \A j \in DirtySlot(s) : j <= k) = i
      BY <2>2 DEF Slot
    <2>4. disk'[s] = cache[i].buffer
      BY <1>2, <2>3 DEF Close
    <2>5. cache[i].buffer \in Content
      BY DEF IInv, TypeOK, Entry
    <2>6. QED
      BY <2>1, <2>2, <2>4, <2>5 DEF DirtySlot
  <1>3. QED
    BY <1>1, <1>2

(* buffer_cache_close keeps the inductive invariant.                      *)
LEMMA CloseKeepsInvariant ==
  ASSUME IInv, Close
  PROVE  IInv'
  <1>. USE DEF IInv
  <1>1. \A i \in Slot : /\ cache'[i].occupied = cache[i].occupied
                        /\ cache'[i].sector = cache[i].sector
                        /\ cache'[i].buffer = cache[i].buffer
                        /\ cache'[i].occupied => ~cache'[i].dirty
    BY DEF Close, TypeOK, Entry
  <1>2. TypeOK'
    <2>1. cache' \in [Slot -> Entry] /\ clock' \in Slot /\ result' \in Content
      BY ZenonT(60) DEF Close, TypeOK, Entry
    <2>2. disk' = [s \in Sector |-> disk'[s]]
      BY DEF Close
    <2>3. \A s \in Sector : disk'[s] \in Content \cup {Absent}
      BY CloseWritesBack DEF TypeOK
    <2>4. disk' \in [Sector -> Content \cup {Absent}]
      BY <2>2, <2>3
    <2>5. \A s \in Device : disk'[s] # Absent
      BY CloseWritesBack DEF TypeOK
    <2>6. QED
      BY <2>1, <2>4, <2>5 DEF Close, TypeOK
  <1>3. OneSlotPerSector'
    BY <1>1 DEF OneSlotPerSector
  <1>4. CleanMatchesDisk'
    <2>. SUFFICES ASSUME NEW i \in Slot, cache[i].occupied,
                         disk'[cache[i].sector] # Absent
                  PROVE  cache[i].buffer = disk'[cache[i].sector]
      BY <1>1 DEF CleanMatchesDisk
    <2>1. cache[i].sector \in Sector
      BY DEF TypeOK, Entry
    <2>2. CASE cache[i].dirty
      BY <2>1, <2>2, CloseWritesBack DEF Holds
    <2>3. CASE ~cache[i].dirty
      <3>1. disk'[cache[i].sector] = disk[cache[i].sector]
        BY <2>1, <2>3, CloseWritesBack DEF Holds, OneSlotPerSector
      <3>2. QED
        BY <2>3, <3>1 DEF CleanMatchesDisk
    <2>4. QED
      BY <2>2, <2>3
  <1>5. CloseLeavesClean'
    BY <1>1 DEF CloseLeavesClean
  <1>6. QED
    BY <1>2, <1>3, <1>4, <1>5

-----------------------------------------------------------------------------
(* An empty cache, as buffer_cache_init leaves it, meets the invariant.    *)
LEMMA InitInvariant == Init => IInv
  <1>. SUFFICES ASSUME Init
                PROVE  IInv
    OBVIOUS
  <1>1. TypeOK
    BY DEF Init, TypeOK, EmptyCache, Entry, Slot
  <1>2. \A i \in Slot : ~cache[i].occupied
    BY DEF Init, EmptyCache
  <1>3. QED
    BY <1>1, <1>2 DEF Init, IInv, OneSlotPerSector, CleanMatchesDisk, CloseLeavesClean

(* A read or a write of a sector that already has a slot keeps the         *)
(* invariant: a read changes access bits, a write makes the slot dirty.    *)
LEMMA HitKeepsInvariant ==
  ASSUME IInv, NEW i \in Slot, cache[i].occupied, NEW e \in Entry,
         e.occupied, e.sector = cache[i].sector,
         e.dirty \/ (e.dirty = cache[i].dirty /\ e.buffer = cache[i].buffer),
         cache' = [cache EXCEPT ![i] = e], UNCHANGED <<clock, disk>>,
         result' \in Content, op' \in {"read", "write"}
  PROVE  IInv'
  <1>. USE DEF IInv
  <1>1. TypeOK'
    BY DEF TypeOK
  <1>2. \A j \in Slot : cache'[j] = IF j = i THEN e ELSE cache[j]
    BY DEF TypeOK
  <1>3. OneSlotPerSector' /\ CleanMatchesDisk' /\ CloseLeavesClean'
    BY <1>2 DEF OneSlotPerSector, CleanMatchesDisk, CloseLeavesClean
  <1>4. QED
    BY <1>1, <1>3

(* The invariant is inductive: one case per operation of the cache.        *)
LEMMA NextKeepsInvariant == IInv /\ [Next]_vars => IInv'
  <1>. SUFFICES ASSUME IInv, [Next]_vars
                PROVE  IInv'
    OBVIOUS
  <1>0. \A i \in Slot : cache[i] \in Entry
    BY DEF IInv, TypeOK
  <1>1. ASSUME NEW s \in Sector, ReadHit(s)
        PROVE  IInv'
    <2>1. PICK i \in Slot : Lookup(i, s) /\ cache' = [cache EXCEPT ![i].access = TRUE]
                           /\ result' = cache[i].buffer
      BY <1>1 DEF ReadHit
    <2>. DEFINE e == [cache[i] EXCEPT !.access = TRUE]
    <2>2. /\ e \in Entry /\ e.occupied = cache[i].occupied /\ e.sector = cache[i].sector
          /\ e.dirty = cache[i].dirty /\ e.buffer = cache[i].buffer
          /\ cache' = [cache EXCEPT ![i] = e]
      BY <1>0, <2>1 DEF Entry
    <2>3. cache[i].occupied /\ result' \in Content
      BY <1>0, <2>1 DEF Lookup, Holds, Entry
    <2>. HIDE DEF e
    <2>4. QED
      BY <1>1, <2>2, <2>3, HitKeepsInvariant DEF ReadHit
  <1>2. ASSUME NEW s \in Sector, ReadMiss(s)
        PROVE  IInv'
    <2>1. PICK v \in Slot :
             /\ cache' = [Swept(v) EXCEPT ![v] = Filled(v, s)]
             /\ clock' = v
             /\ disk' = Flushed(v)
             /\ result' = Filled(v, s).buffer
      BY <1>2 DEF ReadMiss
    <2>2. result' \in Content
      BY <2>1, FilledMatches DEF IInv, Entry
    <2>3. QED
      BY <1>2, <2>1, <2>2, FilledMatches, MissKeepsInvariant DEF ReadMiss, IInv
  <1>3. ASSUME NEW s \in Sector, NEW c \in Content, WriteHit(s, c)
        PROVE  IInv'
    <2>1. PICK i \in Slot :
             /\ Lookup(i, s)
             /\ cache' = [cache EXCEPT ![i].access = TRUE, ![i].dirty = TRUE, ![i].buffer = c]
      BY <1>3 DEF WriteHit
    <2>. DEFINE e == [cache[i] EXCEPT !.access = TRUE, !.dirty = TRUE, !.buffer = c]
    <2>2. /\ e \in Entry /\ e.occupied = cache[i].occupied /\ e.sector = cache[i].sector
          /\ e.dirty
      BY <1>0 DEF Entry
    <2>3. cache' = [cache EXCEPT ![i] = e]
      BY <1>0, <2>1 DEF IInv, TypeOK, Entry
    <2>4. cache[i].occupied /\ result' \in Content
      BY <1>3, <2>1 DEF Lookup, Holds, WriteHit, IInv, TypeOK
    <2>. HIDE DEF e
    <2>5. QED
      BY <1>3, <2>2, <2>3, <2>4, HitKeepsInvariant DEF WriteHit
  <1>4. ASSUME NEW s \in Sector, NEW c \in Content, WriteMiss(s, c)
        PROVE  IInv'
    <2>1. PICK v \in Slot :
             /\ cache' = [Swept(v) EXCEPT ![v] = [Filled(v, s) EXCEPT !.dirty = TRUE, !.buffer = c]]
             /\ clock' = v
             /\ disk' = Flushed(v)
      BY <1>4 DEF WriteMiss
    <2>. DEFINE e == [Filled(v, s) EXCEPT !.dirty = TRUE, !.buffer = c]
    <2>0. Filled(v, s) \in Entry /\ Filled(v, s).occupied /\ Filled(v, s).sector = s
      BY FilledMatches DEF IInv
    <2>2. e \in Entry /\ e.occupied /\ e.sector = s /\ e.dirty
      BY <2>0 DEF Entry
    <2>3. cache' = [Swept(v) EXCEPT ![v] = e]
      BY <2>1
    <2>4. result' \in Content /\ op' \in {"read", "write"} /\ Miss(s)
      BY <1>4 DEF WriteMiss, IInv, TypeOK
    <2>. HIDE DEF e
    <2>5. QED
      BY <2>1, <2>2, <2>3, <2>4, MissKeepsInvariant
  <1>5. CASE Close
    BY <1>5, CloseKeepsInvariant
  <1>6. CASE Restart
    <2>0. EmptyCache \in [Slot -> Entry] /\ 0 \in Slot
      BY DEF EmptyCache, Entry, Slot
    <2>1. TypeOK'
      BY <1>6, <2>0 DEF Restart, IInv, TypeOK
    <2>2. \A i \in Slot : ~cache'[i].occupied
      BY <1>6 DEF Restart, EmptyCache
    <2>3. QED
      BY <2>1, <2>2 DEF IInv, OneSlotPerSector, CleanMatchesDisk, CloseLeavesClean
  <1>7. CASE UNCHANGED vars
    BY <1>7 DEF vars, IInv, TypeOK, OneSlotPerSector, CleanMatchesDisk, CloseLeavesClean, Slot
  <1>8. QED
    BY <1>1, <1>2, <1>3, <1>4, <1>5, <1>6, <1>7 DEF Next

(* The inductive invariant holds in every state of the cache. *)
THEOREM Invariant == Spec => []IInv
  BY InitInvariant, NextKeepsInvariant, PTL DEF Spec

(* cache.c keeps the types of its slots, its clock inside the cache and    *)
(* never gives a caller anything but a sector content.                     *)
THEOREM TypeCorrect == Spec => []TypeOK
  <1>1. IInv => TypeOK
    BY DEF IInv
  <1>2. QED
    BY <1>1, Invariant, PTL

(* buffer_cache_lookup before every fill keeps a sector in one slot only. *)
THEOREM OneSlot == Spec => []OneSlotPerSector
  <1>1. IInv => OneSlotPerSector
    BY DEF IInv
  <1>2. QED
    BY <1>1, Invariant, PTL

(* Dropping a clean slot, as buffer_cache_evict does, loses nothing. *)
THEOREM CleanMatches == Spec => []CleanMatchesDisk
  <1>1. IInv => CleanMatchesDisk
    BY DEF IInv
  <1>2. QED
    BY <1>1, Invariant, PTL

-----------------------------------------------------------------------------
(* Current(s) is the buffer of whichever slot holds s, or what the disk    *)
(* has.                                                                    *)
CurrentFollows ==
  \A s \in Sector :
    /\ \A i \in Slot : Holds(i, s) => Current(s) = cache[i].buffer
    /\ Miss(s) => Current(s) = disk[s]
    /\ Current(s) \in Content \cup {Absent}

(* What a read of a sector would return is its slot's data if it has a     *)
(* slot, and the disk's content otherwise.                                 *)
LEMMA CurrentIsHeld == IInv => CurrentFollows
  <1>. SUFFICES ASSUME IInv, NEW s \in Sector
                PROVE  /\ \A i \in Slot : Holds(i, s) => Current(s) = cache[i].buffer
                       /\ Miss(s) => Current(s) = disk[s]
                       /\ Current(s) \in Content \cup {Absent}
    BY DEF CurrentFollows
  <1>1. CASE Miss(s)
    BY <1>1 DEF IInv, TypeOK, Miss, Current, Cached
  <1>2. CASE ~Miss(s)
    <2>1. PICK i \in Slot : Holds(i, s)
      BY <1>2 DEF Miss
    <2>2. \A j \in Slot : Holds(j, s) => j = i
      BY <2>1 DEF Holds, IInv, OneSlotPerSector
    <2>3. (CHOOSE j \in Slot : Holds(j, s)) = i
      BY <2>1, <2>2
    <2>4. Current(s) = cache[i].buffer
      BY <2>1, <2>3 DEF Current, Cached
    <2>5. cache[i].buffer \in Content
      BY DEF IInv, TypeOK, Entry
    <2>6. QED
      BY <1>2, <2>2, <2>4, <2>5
  <1>3. QED
    BY <1>1, <1>2

(* After `quit` has closed the cache, the disk image holds every sector's  *)
(* last content: nothing is left only in memory.                           *)
THEOREM Durable == Spec => []ClosedIsDurable
  <1>1. IInv => ClosedIsDurable
    <2>. SUFFICES ASSUME IInv, op = "close", NEW s \in Device
                  PROVE  disk[s] = Current(s)
      BY DEF ClosedIsDurable
    <2>1. s \in Sector /\ disk[s] # Absent
      BY DEF IInv, TypeOK
    <2>2. CASE Miss(s)
      BY <2>1, <2>2, CurrentIsHeld DEF CurrentFollows
    <2>3. ASSUME NEW i \in Slot, Holds(i, s)
          PROVE  disk[s] = Current(s)
      <3>1. Current(s) = cache[i].buffer
        BY <2>1, <2>3, CurrentIsHeld DEF CurrentFollows
      <3>2. QED
        BY <2>1, <2>3, <3>1 DEF IInv, CloseLeavesClean, CleanMatchesDisk, Holds
    <2>4. QED
      BY <2>2, <2>3 DEF Miss
  <1>2. QED
    BY <1>1, Invariant, PTL

-----------------------------------------------------------------------------
(* The refinement: the view of the store is the content a read of each     *)
(* sector would return.                                                    *)
LEMMA CurrentNextIsHeld == IInv' => CurrentFollows'
  BY CurrentIsHeld, PTL

(* A miss that fills slot v with entry e changes the view of s alone, and  *)
(* makes at most the victim's sector durable.                              *)
LEMMA MissView ==
  ASSUME IInv, IInv', Device = Sector, NEW s \in Sector, Miss(s), NEW v \in Slot,
         NEW e \in Entry, e.occupied, e.sector = s,
         cache' = [Swept(v) EXCEPT ![v] = e], disk' = Flushed(v)
  PROVE  /\ Current(s)' = e.buffer
         /\ \A t \in Sector \ {s} : Current(t)' = Current(t)
         /\ \E P \in SUBSET Sector : \A t \in Sector :
              disk'[t] = IF t \in P THEN Current(t) ELSE disk[t]
  <1>1. \A i \in Slot \ {v} : /\ cache'[i].occupied = cache[i].occupied
                              /\ cache'[i].sector = cache[i].sector
                              /\ cache'[i].buffer = cache[i].buffer
    BY SweptOnlyAccess DEF IInv
  <1>2. cache'[v] = e
    BY SweptOnlyAccess DEF IInv
  <1>3. CurrentFollows /\ CurrentFollows'
    BY CurrentIsHeld, CurrentNextIsHeld
  <1>4. Current(s)' = e.buffer
    BY <1>2, <1>3 DEF CurrentFollows, Holds
  <1>5. ASSUME NEW t \in Sector, t # s
        PROVE  Current(t)' = Current(t)
    <2>1. ASSUME NEW i \in Slot, i # v, Holds(i, t)
          PROVE  Current(t)' = Current(t)
      <3>1. Holds(i, t)'
        BY <1>1, <2>1 DEF Holds
      <3>2. QED
        BY <1>1, <1>3, <2>1, <3>1 DEF CurrentFollows
    <2>2. CASE Holds(v, t)
      <3>1. Miss(t)'
        BY <1>1, <1>2, <1>5, <2>2 DEF Miss, Holds, IInv, OneSlotPerSector
      <3>2. disk'[t] = cache[v].buffer
        <4>1. CASE cache[v].dirty
          BY <2>2, <4>1, FlushedOnlyVictim DEF IInv, Holds
        <4>2. CASE ~cache[v].dirty
          BY <2>2, <4>2 DEF Flushed, Holds, IInv, CleanMatchesDisk, TypeOK
        <4>3. QED
          BY <4>1, <4>2
      <3>3. QED
        BY <1>3, <2>2, <3>1, <3>2 DEF CurrentFollows
    <2>3. CASE Miss(t)
      <3>1. Miss(t)'
        BY <1>1, <1>2, <1>5, <2>3 DEF Miss, Holds
      <3>2. disk'[t] = disk[t]
        BY <2>3, FlushedOnlyVictim DEF IInv, Miss, Holds
      <3>3. QED
        BY <1>3, <2>3, <3>1, <3>2 DEF CurrentFollows
    <2>4. QED
      BY <2>1, <2>2, <2>3 DEF Miss
  <1>6. \E P \in SUBSET Sector : \A t \in Sector :
          disk'[t] = IF t \in P THEN Current(t) ELSE disk[t]
    <2>. DEFINE P == {t \in Sector : disk'[t] # disk[t]}
    <2>1. ASSUME NEW t \in P
          PROVE  disk'[t] = Current(t)
      <3>1. Holds(v, t)
        BY FlushedOnlyVictim DEF IInv, Holds
      <3>2. cache[v].dirty
        BY <3>1 DEF Flushed
      <3>3. disk'[t] = cache[v].buffer
        BY <3>1, <3>2, FlushedOnlyVictim DEF IInv, Holds
      <3>4. QED
        BY <1>3, <3>1, <3>3 DEF CurrentFollows
    <2>2. P \in SUBSET Sector
      OBVIOUS
    <2>3. \A t \in Sector : disk'[t] = IF t \in P THEN Current(t) ELSE disk[t]
      BY <2>1
    <2>. HIDE DEF P
    <2>4. QED
      BY <2>2, <2>3
  <1>7. QED
    BY <1>4, <1>5, <1>6

(* A hit in slot v changes the view of that slot's sector alone.           *)
LEMMA HitView ==
  ASSUME IInv, IInv', NEW s \in Sector, NEW i \in Slot, Holds(i, s), NEW e \in Entry,
         e.occupied, e.sector = s, cache' = [cache EXCEPT ![i] = e], disk' = disk
  PROVE  /\ Current(s)' = e.buffer
         /\ \A t \in Sector \ {s} : Current(t)' = Current(t)
  <1>1. \A j \in Slot : cache'[j] = IF j = i THEN e ELSE cache[j]
    BY DEF IInv, TypeOK
  <1>2. CurrentFollows /\ CurrentFollows'
    BY CurrentIsHeld, CurrentNextIsHeld
  <1>3. Current(s)' = e.buffer
    BY <1>1, <1>2 DEF CurrentFollows, Holds
  <1>4. ASSUME NEW t \in Sector, t # s
        PROVE  Current(t)' = Current(t)
    <2>1. \A j \in Slot : Holds(j, t)' = Holds(j, t) /\ (Holds(j, t) => cache'[j] = cache[j])
      BY <1>1, <1>4 DEF Holds
    <2>2. QED
      BY <1>2, <2>1 DEF CurrentFollows, Miss
  <1>5. QED
    BY <1>3, <1>4

(* Closing leaves the view alone and makes all of it durable. *)
LEMMA CloseView ==
  ASSUME IInv, IInv', Device = Sector, Close
  PROVE  \A t \in Sector : Current(t)' = Current(t) /\ disk'[t] = Current(t)
  <1>. TAKE t \in Sector
  <1>1. CurrentFollows /\ CurrentFollows'
    BY CurrentIsHeld, CurrentNextIsHeld
  <1>2. \A j \in Slot : Holds(j, t)' = Holds(j, t) /\ cache'[j].buffer = cache[j].buffer
    BY DEF Close, Holds, IInv, TypeOK, Entry
  <1>3. CASE Miss(t)
    <2>1. disk'[t] = disk[t] /\ Miss(t)'
      BY <1>2, <1>3, CloseWritesBack DEF Miss
    <2>2. QED
      BY <1>1, <1>3, <2>1 DEF CurrentFollows
  <1>4. ASSUME NEW i \in Slot, Holds(i, t)
        PROVE  Current(t)' = Current(t) /\ disk'[t] = Current(t)
    <2>1. Current(t) = cache[i].buffer /\ Current(t)' = cache[i].buffer
      BY <1>1, <1>2, <1>4 DEF CurrentFollows
    <2>2. ~cache[i].dirty => disk'[t] = disk[t] /\ disk[t] = cache[i].buffer
      BY <1>4, CloseWritesBack DEF Holds, IInv, OneSlotPerSector, CleanMatchesDisk, TypeOK
    <2>3. QED
      BY <1>4, <2>1, <2>2, CloseWritesBack
  <1>5. QED
    BY <1>3, <1>4 DEF Miss

-----------------------------------------------------------------------------
(* Every step of the cache is a step of the store. *)
LEMMA StepImplementsStore ==
  ASSUME IInv, IInv', Device = Sector, Next
  PROVE  Store!Next
  <1>. DEFINE view == [s \in Sector |-> Current(s)]
  <1>0. /\ \A s \in Sector : view[s] = Current(s) /\ view'[s] = Current(s)'
        /\ disk' = [s \in Sector |-> disk'[s]]
    BY DEF IInv, TypeOK
  <1>1. ASSUME NEW s \in Sector, ReadHit(s)
        PROVE  Store!Read(s)
    <2>1. PICK i \in Slot :
             /\ Lookup(i, s)
             /\ cache' = [cache EXCEPT ![i].access = TRUE]
             /\ result' = cache[i].buffer
      BY <1>1 DEF ReadHit
    <2>. DEFINE e == [cache[i] EXCEPT !.access = TRUE]
    <2>2. /\ e \in Entry /\ e.occupied /\ e.sector = s /\ e.buffer = cache[i].buffer
          /\ cache' = [cache EXCEPT ![i] = e] /\ Holds(i, s)
      BY <2>1 DEF Entry, IInv, TypeOK, Lookup, Holds
    <2>. HIDE DEF e
    <2>3. disk' = disk /\ op' = "read"
      BY <1>1 DEF ReadHit
    <2>4. Current(s) = cache[i].buffer
      BY <2>2, CurrentIsHeld DEF CurrentFollows
    <2>5. \A t \in Sector : Current(t)' = Current(t)
      BY <2>2, <2>3, <2>4, HitView
    <2>6. view' = view
      BY <2>5
    <2>7. disk' = [t \in Sector |-> IF t \in {} THEN view[t] ELSE disk[t]]
      BY <1>0, <2>3
    <2>8. Store!Persist({})
      BY <2>7 DEF Store!Persist
    <2>9. QED
      BY <2>1, <2>3, <2>4, <2>6, <2>8 DEF Store!Read
  <1>2. ASSUME NEW s \in Sector, ReadMiss(s)
        PROVE  Store!Read(s)
    <2>1. PICK v \in Slot :
             /\ cache' = [Swept(v) EXCEPT ![v] = Filled(v, s)]
             /\ disk' = Flushed(v)
             /\ result' = Filled(v, s).buffer
      BY <1>2 DEF ReadMiss
    <2>2. Miss(s) /\ op' = "read"
      BY <1>2 DEF ReadMiss
    <2>3. /\ Filled(v, s) \in Entry
          /\ Filled(v, s).occupied
          /\ Filled(v, s).sector = s
      BY FilledMatches DEF IInv
    <2>4. /\ Current(s)' = Filled(v, s).buffer
          /\ \A t \in Sector \ {s} : Current(t)' = Current(t)
          /\ \E P \in SUBSET Sector : \A t \in Sector :
               disk'[t] = IF t \in P THEN Current(t) ELSE disk[t]
      BY <2>1, <2>2, <2>3, MissView
    <2>5. Filled(v, s).buffer = Current(s)
      <3>1. Current(s) = disk[s]
        BY <2>2, CurrentIsHeld DEF CurrentFollows
      <3>2. Flushed(v)[s] = disk[s] /\ disk[s] # Absent
        BY <2>2, FlushedOnlyVictim DEF IInv, TypeOK, Miss, Holds
      <3>3. QED
        BY <3>1, <3>2, FilledMatches DEF IInv
    <2>6. view' = view
      BY <2>4, <2>5
    <2>7. PICK P \in SUBSET Sector : \A t \in Sector :
            disk'[t] = IF t \in P THEN Current(t) ELSE disk[t]
      BY <2>4
    <2>8. disk' = [t \in Sector |-> IF t \in P THEN view[t] ELSE disk[t]]
      BY <1>0, <2>7
    <2>9. QED
      BY <2>1, <2>2, <2>5, <2>6, <2>8 DEF Store!Read, Store!Persist
  <1>3. ASSUME NEW s \in Sector, NEW c \in Content, WriteHit(s, c)
        PROVE  Store!Write(s, c)
    <2>1. PICK i \in Slot :
             /\ Lookup(i, s)
             /\ cache' = [cache EXCEPT ![i].access = TRUE, ![i].dirty = TRUE, ![i].buffer = c]
      BY <1>3 DEF WriteHit
    <2>. DEFINE e == [cache[i] EXCEPT !.access = TRUE, !.dirty = TRUE, !.buffer = c]
    <2>2. /\ e \in Entry /\ e.occupied /\ e.sector = s /\ e.buffer = c
          /\ cache' = [cache EXCEPT ![i] = e] /\ Holds(i, s)
      <3>1. cache \in [Slot -> Entry] /\ cache[i] \in Entry
        BY DEF IInv, TypeOK
      <3>2. cache[i].occupied /\ cache[i].sector = s /\ Holds(i, s)
        BY <2>1 DEF Lookup, Holds
      <3>3. e \in Entry /\ e.occupied /\ e.sector = s /\ e.buffer = c
        BY <3>1, <3>2 DEF Entry
      <3>4. cache' = [cache EXCEPT ![i] = e]
        BY <2>1, <3>1
      <3>5. QED
        BY <3>2, <3>3, <3>4
    <2>. HIDE DEF e
    <2>3. disk' = disk /\ op' = "write" /\ result' = result
      BY <1>3 DEF WriteHit
    <2>4. Current(s)' = c /\ \A t \in Sector \ {s} : Current(t)' = Current(t)
      BY <2>2, <2>3, HitView
    <2>5. view' = [view EXCEPT ![s] = c]
      BY <2>4
    <2>6. disk' = [t \in Sector |-> IF t \in {} THEN view[t] ELSE disk[t]]
      BY <1>0, <2>3
    <2>7. Store!Persist({})
      BY <2>6 DEF Store!Persist
    <2>8. QED
      BY <2>3, <2>5, <2>7 DEF Store!Write
  <1>4. ASSUME NEW s \in Sector, NEW c \in Content, WriteMiss(s, c)
        PROVE  Store!Write(s, c)
    <2>1. PICK v \in Slot :
             /\ cache' = [Swept(v) EXCEPT ![v] = [Filled(v, s) EXCEPT !.dirty = TRUE, !.buffer = c]]
             /\ disk' = Flushed(v)
      BY <1>4 DEF WriteMiss
    <2>. DEFINE e == [Filled(v, s) EXCEPT !.dirty = TRUE, !.buffer = c]
    <2>2. Miss(s) /\ op' = "write" /\ result' = result
      BY <1>4 DEF WriteMiss
    <2>3. Filled(v, s) \in Entry /\ Filled(v, s).occupied /\ Filled(v, s).sector = s
      BY FilledMatches DEF IInv
    <2>4. e \in Entry /\ e.occupied /\ e.sector = s /\ e.buffer = c
      BY <2>3 DEF Entry
    <2>5. cache' = [Swept(v) EXCEPT ![v] = e]
      BY <2>1
    <2>. HIDE DEF e
    <2>6. /\ Current(s)' = c
          /\ \A t \in Sector \ {s} : Current(t)' = Current(t)
          /\ \E P \in SUBSET Sector : \A t \in Sector :
               disk'[t] = IF t \in P THEN Current(t) ELSE disk[t]
      BY <2>1, <2>2, <2>4, <2>5, MissView
    <2>7. view' = [view EXCEPT ![s] = c]
      BY <2>6
    <2>8. PICK P \in SUBSET Sector : \A t \in Sector :
            disk'[t] = IF t \in P THEN Current(t) ELSE disk[t]
      BY <2>6
    <2>9. disk' = [t \in Sector |-> IF t \in P THEN view[t] ELSE disk[t]]
      BY <1>0, <2>8
    <2>10. QED
      BY <2>2, <2>7, <2>9 DEF Store!Write, Store!Persist
  <1>5. ASSUME Close
        PROVE  Store!Close
    <2>1. view' = view /\ disk' = view
      BY <1>0, <1>5, CloseView
    <2>2. QED
      BY <1>5, <2>1 DEF Close, Store!Close
  <1>6. ASSUME Restart
        PROVE  Store!Restart
    <2>1. \A s \in Sector : Miss(s)'
      BY <1>6 DEF Restart, EmptyCache, Miss, Holds
    <2>2. \A s \in Sector : Current(s)' = disk[s]
      BY <1>6, <2>1, CurrentNextIsHeld DEF CurrentFollows, Restart
    <2>3. view' = disk
      BY <1>0, <1>6, <2>2 DEF Restart
    <2>4. QED
      BY <1>6, <2>3 DEF Restart, Store!Restart
  <1>. HIDE DEF view
  <1>7. QED
    BY <1>1, <1>2, <1>3, <1>4, <1>5, <1>6 DEF Next, Store!Next

(* An empty cache is an empty store's view of the disk.                    *)
LEMMA InitImplementsStore ==
  ASSUME Init, Device = Sector
  PROVE  Store!Init
  <1>1. \A s \in Sector : Current(s) = disk[s]
    BY DEF Init, EmptyCache, Current, Cached, Holds
  <1>2. disk \in [Sector -> Content] /\ disk = [s \in Sector |-> disk[s]]
    BY DEF Init
  <1>3. QED
    BY <1>1, <1>2 DEF Init, Store!Init

(* buffer_cache_read, _write and _close keep the promise of the sector     *)
(* layer: while every sector asked for is on the device, a read returns    *)
(* what the last write of the sector left, whatever the clock evicted in   *)
(* between, and a close loses nothing.                                     *)
THEOREM Implements ==
  ASSUME Device = Sector
  PROVE  Spec => ImplementsStore
  <1>1. Init => Store!Init
    BY InitImplementsStore
  <1>2. IInv /\ IInv' /\ [Next]_vars => [Store!Next]_(Store!vars)
    <2>1. ASSUME IInv, IInv', Next
          PROVE  Store!Next
      BY <2>1, StepImplementsStore
    <2>2. ASSUME UNCHANGED vars
          PROVE  UNCHANGED Store!vars
      BY <2>2 DEF vars, Store!vars, Current, Cached, Holds
    <2>3. QED
      BY <2>1, <2>2
  <1>3. QED
    BY <1>1, <1>2, Invariant, PTL DEF Spec, ImplementsStore, Store!Spec
=============================================================================
