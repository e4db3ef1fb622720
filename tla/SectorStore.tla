----------------------------- MODULE SectorStore -----------------------------
(***************************************************************************)
(* What the file system of assignment 3 expects of its sector layer: every *)
(* sector has one current content, a read returns it, a write replaces it, *)
(* closing makes everything durable, and a process that ends without       *)
(* closing loses exactly what was not yet durable.  BufferCache implements *)
(* this module.                                                            *)
(***************************************************************************)
CONSTANTS Sector,    \* the sectors of the device
          Content    \* the contents of a sector

VARIABLES current,   \* what a read of each sector returns
          durable,   \* what survives the process
          result,    \* what the last read returned
          op         \* the last operation

vars == <<current, durable, result, op>>

Init ==
  /\ current \in [Sector -> Content]
  /\ durable = current
  /\ result \in Content
  /\ op = "boot"

(* An operation may make the content of other sectors durable on its way: *)
(* that is what an eviction does.                                          *)
Persist(P) == durable' = [s \in Sector |-> IF s \in P THEN current[s] ELSE durable[s]]

Read(s) ==
  /\ \E P \in SUBSET Sector : Persist(P)
  /\ result' = current[s]
  /\ op' = "read"
  /\ UNCHANGED current

Write(s, c) ==
  /\ \E P \in SUBSET Sector : Persist(P)
  /\ current' = [current EXCEPT ![s] = c]
  /\ op' = "write"
  /\ UNCHANGED result

Close ==
  /\ durable' = current
  /\ op' = "close"
  /\ UNCHANGED <<current, result>>

Restart ==
  /\ current' = durable
  /\ op' = "boot"
  /\ UNCHANGED <<durable, result>>

Next ==
  \/ \E s \in Sector : Read(s)
  \/ \E s \in Sector, c \in Content : Write(s, c)
  \/ Close
  \/ Restart

Spec == Init /\ [][Next]_vars
=============================================================================
