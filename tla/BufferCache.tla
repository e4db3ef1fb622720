----------------------------- MODULE BufferCache -----------------------------
(***************************************************************************)
(* The write-back buffer cache of a3/fs/cache.c over the block device of   *)
(* a3/fs/block.c and a3/fs/ide.c.                                          *)
(*                                                                         *)
(* Every call runs to its end before the next one (the program has one     *)
(* thread), so a read or a write, with the eviction, the flush and the     *)
(* fill it causes, is one step.  A process that ends and starts again      *)
(* (Restart) comes back with an empty cache, whether it ended through      *)
(* `quit`, which closes the cache first, or through an exit(99) of         *)
(* PCB_init, which does not.                                               *)
(***************************************************************************)
EXTENDS Integers

CONSTANTS CacheSize, \* BUFFER_CACHE_SIZE
          Sector,    \* the sector numbers a caller can pass
          Device,    \* those below block->size
          Content,   \* the contents of a sector
          Zeros,     \* a sector of zero bytes: the static buffers at process start
          Absent     \* past the end of the disk image

(* byte_to_sector answers (block_sector_t)-1 for an offset outside a file, *)
(* and nothing else makes a sector number that is not on the device.       *)
ASSUME CacheAssumption ==
  /\ CacheSize \in Nat \ {0}
  /\ Sector # {}
  /\ Device \subseteq Sector
  /\ \A s, t \in Sector \ Device : s = t
  /\ Zeros \in Content
  /\ Absent \notin Content

VARIABLES cache,     \* slot -> struct buffer_cache_entry_t
          clock,     \* the static of buffer_cache_evict
          disk,      \* the disk image
          result,    \* the last buffer given back by a read
          op         \* the last operation

vars == <<cache, clock, disk, result, op>>

Slot == 0 .. CacheSize - 1

Entry == [occupied : BOOLEAN, sector : Sector, buffer : Content,
          dirty : BOOLEAN, access : BOOLEAN]

(* buffer_cache_init, on the zeroed statics of a fresh process; the sector *)
(* of an unoccupied slot is never looked at.                               *)
EmptyCache ==
  [i \in Slot |-> [occupied |-> FALSE, sector |-> CHOOSE s \in Sector : TRUE,
                   buffer |-> Zeros, dirty |-> FALSE, access |-> FALSE]]

Init ==
  /\ cache = EmptyCache
  /\ clock = 0
  /\ disk \in [Sector -> Content \cup {Absent}]
  /\ \A s \in Sector : disk[s] = Absent <=> s \notin Device
  /\ result = Zeros
  /\ op = "boot"

-----------------------------------------------------------------------------
(* The block device.  check_sector only prints when the sector is past the *)
(* end; read(2) then transfers nothing and the caller's buffer keeps its   *)
(* bytes, and write(2) extends the image.                                  *)

BlockRead(d, s, buffer) == IF d[s] = Absent THEN buffer ELSE d[s]

BlockWrite(d, s, buffer) == [d EXCEPT ![s] = buffer]

-----------------------------------------------------------------------------
(* buffer_cache_lookup: the first occupied slot that holds the sector. *)

Holds(i, s) == cache[i].occupied /\ cache[i].sector = s

Lookup(i, s) == Holds(i, s) /\ \A j \in 0 .. i - 1 : ~Holds(j, s)

\* Mutant of Miss: the lookup loop ends one slot early.
MissButLast(s) == \A i \in 0 .. CacheSize - 2 : ~Holds(i, s)

Miss(s) == \A i \in Slot : ~Holds(i, s)

(* buffer_cache_evict: the hand leaves `clock`, clears the access bit of   *)
(* every slot it passes, and stops at the first slot that is free or whose *)
(* access bit is clear.  When there is none, it comes back to where it     *)
(* started, having cleared every bit.                                      *)

Distance(i) == (i - clock) % CacheSize

Stops(i) == ~cache[i].occupied \/ ~cache[i].access

FullTurn == \A i \in Slot : ~Stops(i)

Victim(v) ==
  IF FullTurn THEN v = clock
  ELSE Stops(v) /\ \A i \in Slot : Stops(i) => Distance(v) <= Distance(i)

Passed(i, v) == FullTurn \/ Distance(i) < Distance(v)

Swept(v) ==
  [i \in Slot |-> IF Passed(i, v) THEN [cache[i] EXCEPT !.access = FALSE] ELSE cache[i]]

\* Mutant of Flushed: the victim is dropped without its write-back.
FlushedNothing(v) == disk

(* The write-back of the victim. *)
Flushed(v) ==
  IF cache[v].occupied /\ cache[v].dirty
  THEN BlockWrite(disk, cache[v].sector, cache[v].buffer)
  ELSE disk

(* The entry of sector s as it is filled in after a miss. *)
Filled(v, s) ==
  [occupied |-> TRUE, sector |-> s, dirty |-> FALSE, access |-> TRUE,
   buffer |-> BlockRead(Flushed(v), s, cache[v].buffer)]

-----------------------------------------------------------------------------
ReadHit(s) ==
  \E i \in Slot :
    /\ Lookup(i, s)
    /\ cache' = [cache EXCEPT ![i].access = TRUE]
    /\ result' = cache[i].buffer
    /\ op' = "read"
    /\ UNCHANGED <<clock, disk>>

\* Mutant of ReadMiss: the hand moves on past the victim and forgets the modulus.
ReadMissPastEnd(s) ==
  /\ Miss(s)
  /\ \E v \in Slot :
       /\ Victim(v)
       /\ cache' = [Swept(v) EXCEPT ![v] = Filled(v, s)]
       /\ clock' = v + 1
       /\ disk' = Flushed(v)
       /\ result' = Filled(v, s).buffer
       /\ op' = "read"

ReadMiss(s) ==
  /\ Miss(s)
  /\ \E v \in Slot :
       /\ Victim(v)
       /\ cache' = [Swept(v) EXCEPT ![v] = Filled(v, s)]
       /\ clock' = v
       /\ disk' = Flushed(v)
       /\ result' = Filled(v, s).buffer
       /\ op' = "read"

\* Mutant of WriteHit: the slot is not marked dirty.
WriteHitClean(s, c) ==
  \E i \in Slot :
    /\ Lookup(i, s)
    /\ cache' = [cache EXCEPT ![i].access = TRUE, ![i].buffer = c]
    /\ op' = "write"
    /\ UNCHANGED <<clock, disk, result>>

WriteHit(s, c) ==
  \E i \in Slot :
    /\ Lookup(i, s)
    /\ cache' = [cache EXCEPT ![i].access = TRUE, ![i].dirty = TRUE, ![i].buffer = c]
    /\ op' = "write"
    /\ UNCHANGED <<clock, disk, result>>

(* A write reads the sector first and then replaces all of it. *)
WriteMiss(s, c) ==
  /\ Miss(s)
  /\ \E v \in Slot :
       /\ Victim(v)
       /\ cache' = [Swept(v) EXCEPT ![v] = [Filled(v, s) EXCEPT !.dirty = TRUE, !.buffer = c]]
       /\ clock' = v
       /\ disk' = Flushed(v)
       /\ op' = "write"
       /\ UNCHANGED result

(* buffer_cache_close: every dirty slot is written back, in slot order; the *)
(* slots stay occupied.                                                     *)

\* Mutant of DirtySlot: the closing loop ends one slot early.
DirtySlotButLast(s) == {i \in 0 .. CacheSize - 2 : Holds(i, s) /\ cache[i].dirty}

DirtySlot(s) == {i \in Slot : Holds(i, s) /\ cache[i].dirty}

Close ==
  /\ disk' = [s \in Sector |->
                IF DirtySlot(s) = {} THEN disk[s]
                ELSE cache[CHOOSE i \in DirtySlot(s) : \A j \in DirtySlot(s) : j <= i].buffer]
  /\ cache' = [i \in Slot |->
                IF cache[i].occupied THEN [cache[i] EXCEPT !.dirty = FALSE] ELSE cache[i]]
  /\ op' = "close"
  /\ UNCHANGED <<clock, result>>

Restart ==
  /\ cache' = EmptyCache
  /\ clock' = 0
  /\ op' = "boot"
  /\ UNCHANGED <<disk, result>>

Next ==
  \/ \E s \in Sector : ReadHit(s) \/ ReadMiss(s)
  \/ \E s \in Sector, c \in Content : WriteHit(s, c) \/ WriteMiss(s, c)
  \/ Close
  \/ Restart

Spec == Init /\ [][Next]_vars

-----------------------------------------------------------------------------
(* The types of the variables of cache.c, and the clock inside the cache. *)
TypeOK ==
  /\ cache \in [Slot -> Entry]
  /\ clock \in Slot
  /\ disk \in [Sector -> Content \cup {Absent}]
  /\ \A s \in Device : disk[s] # Absent
  /\ result \in Content
  /\ op \in {"boot", "read", "write", "close"}

(* No sector is cached in two slots: two copies of one sector would be     *)
(* written to separately, and flushed over each other.                     *)
OneSlotPerSector ==
  \A i, j \in Slot :
    cache[i].occupied /\ cache[j].occupied /\ cache[i].sector = cache[j].sector => i = j

(* A slot whose dirty bit is clear holds what the disk holds, so that      *)
(* evicting it without a write-back loses nothing.                         *)
CleanMatchesDisk ==
  \A i \in Slot :
    cache[i].occupied /\ ~cache[i].dirty /\ disk[cache[i].sector] # Absent
      => cache[i].buffer = disk[cache[i].sector]

(* The content a read of s returns now. *)
Cached(s) == \E i \in Slot : Holds(i, s)

Current(s) ==
  IF Cached(s) THEN cache[CHOOSE i \in Slot : Holds(i, s)].buffer ELSE disk[s]

(* When filesys_done has closed the cache, the disk image alone holds the  *)
(* current content of every sector of the device.                          *)
ClosedIsDurable ==
  op = "close" => \A s \in Device : disk[s] = Current(s)

(* Where every sector asked for is on the device, the cache cannot be told *)
(* from a store of sectors without one: SectorStore is what it implements. *)
Store == INSTANCE SectorStore
           WITH current <- [s \in Sector |-> Current(s)], durable <- disk

ImplementsStore == Store!Spec
=============================================================================
